---------------------------- MODULE Spec2Model ----------------------------
(***************************************************************************)
(* A model of meshgopher: the Gopher URL parser and menu decoders of       *)
(* gopherlib.py, the navigation Session of main.py, the command handler    *)
(* App.on_receive, and the chunker and the ordered send of meshie.         *)
(*                                                                         *)
(* Text is modelled as it is in Python: a str is a sequence of characters, *)
(* a character being a one-character TLA+ string.  A Python None is the    *)
(* empty sequence << >> of an "optional" (a sequence of length 0 or 1).    *)
(***************************************************************************)
EXTENDS Integers, Sequences, FiniteSets, TLC

VARIABLES sessions, last, app, call, send, mesh

vars == <<sessions, last, app, call, send, mesh>>

(***************************************************************************)
(* Bounds of the model.                                                    *)
(***************************************************************************)
\* The longest history a session is driven to.
MaxHist == 2
\* The number of selectable entries of the long menu the servers may return.
BigMenuLen == 11
\* The number of lines of the long file the servers may return.
BigFileLen == 21
\* The number of direct messages the application is sent.
MaxPackets == 3
\* The length of the messages chunked at every ceiling from 1 to
\* MaxChunkSize, and the ceiling that takes in lines of words.
MaxMsgLen == 4
MaxChunkSize == 4
WideChunkSize == 12
\* The most retries an ordered send is given.
MaxRetries == 2

(***************************************************************************)
(* Program constants.                                                      *)
(***************************************************************************)
MENU_PAGE_SIZE == 10
FILE_PAGE_SIZE == 20
DEFAULT_PORT == 70

(***************************************************************************)
(* Python str operations, on sequences of characters.                      *)
(***************************************************************************)
TAB == "\t"

UpperLetters ==
  <<"A","B","C","D","E","F","G","H","I","J","K","L","M",
    "N","O","P","Q","R","S","T","U","V","W","X","Y","Z">>

LowerLetters ==
  <<"a","b","c","d","e","f","g","h","i","j","k","l","m",
    "n","o","p","q","r","s","t","u","v","w","x","y","z">>

Digits == <<"0","1","2","3","4","5","6","7","8","9">>

\* str.isspace() on the ASCII white space the model's texts contain.
IsSpace(c) == c \in {" ", "\t", "\r", "\n", "\f"}

\* The lower-case and the upper-case form of every letter.
LowerOf == [c \in {UpperLetters[i] : i \in 1..26} |-> LowerLetters[CHOOSE i \in 1..26 : UpperLetters[i] = c]]
UpperOf == [c \in {LowerLetters[i] : i \in 1..26} |-> UpperLetters[CHOOSE i \in 1..26 : LowerLetters[i] = c]]

LowerChar(c) == IF c \in DOMAIN LowerOf THEN LowerOf[c] ELSE c
UpperChar(c) == IF c \in DOMAIN UpperOf THEN UpperOf[c] ELSE c

\* str.lower() and str.upper()
Lower(s) == [i \in 1..Len(s) |-> LowerChar(s[i])]
Upper(s) == [i \in 1..Len(s) |-> UpperChar(s[i])]

\* s[n:] with n >= 0 (n counts characters dropped)
Drop(s, n) == IF n >= Len(s) THEN << >> ELSE SubSeq(s, n + 1, Len(s))
\* s[:n] with n >= 0
Take(s, n) == IF n >= Len(s) THEN s ELSE SubSeq(s, 1, n)

\* s.startswith(p) and s.endswith(p)
StartsWith(s, p) == Len(s) >= Len(p) /\ SubSeq(s, 1, Len(p)) = p
EndsWith(s, p) == Len(s) >= Len(p) /\ SubSeq(s, Len(s) - Len(p) + 1, Len(s)) = p

\* The first position from i on, and the last position up to i, where s
\* has the character c; 0 when there is none.
RECURSIVE FindFrom(_, _, _)
FindFrom(s, c, i) == IF i > Len(s) THEN 0 ELSE IF s[i] = c THEN i ELSE FindFrom(s, c, i + 1)

RECURSIVE RFindFrom(_, _, _)
RFindFrom(s, c, i) == IF i < 1 THEN 0 ELSE IF s[i] = c THEN i ELSE RFindFrom(s, c, i - 1)

\* s.find(c) and s.rfind(c) as 1-based positions, 0 when c is not in s
Find(s, c) == FindFrom(s, c, 1)
RFind(s, c) == RFindFrom(s, c, Len(s))

\* c in s
Contains(s, c) == Find(s, c) # 0

\* The number of leading, and of trailing, white-space characters of s.
RECURSIVE LeadingSpace(_, _)
LeadingSpace(s, i) == IF i > Len(s) \/ ~IsSpace(s[i]) THEN i - 1 ELSE LeadingSpace(s, i + 1)

RECURSIVE TrailingSpace(_, _)
TrailingSpace(s, i) == IF i < 1 \/ ~IsSpace(s[i]) THEN Len(s) - i ELSE TrailingSpace(s, i - 1)

\* s.strip(): leading and trailing white space removed
LStrip(s) == Drop(s, LeadingSpace(s, 1))
RStrip(s) == Take(s, Len(s) - TrailingSpace(s, Len(s)))
Strip(s) == LStrip(RStrip(s))

\* s.rstrip("\r")
RECURSIVE TrailingCR(_, _)
TrailingCR(s, i) == IF i < 1 \/ s[i] # "\r" THEN Len(s) - i ELSE TrailingCR(s, i - 1)

RStripCR(s) == Take(s, Len(s) - TrailingCR(s, Len(s)))

\* The number of spaces and tabs s has from position i on.
RECURSIVE LeadingBlank(_, _)
LeadingBlank(s, i) == IF i > Len(s) \/ s[i] \notin {" ", "\t"} THEN i - 1 ELSE LeadingBlank(s, i + 1)

\* s.strip("\r")
RECURSIVE LeadingCR(_, _)
LeadingCR(s, i) == IF i > Len(s) \/ s[i] # "\r" THEN i - 1 ELSE LeadingCR(s, i + 1)

StripCR(s) == Drop(RStripCR(s), LeadingCR(RStripCR(s), 1))

\* s.rstrip("\r\n")
RECURSIVE TrailingCRLF(_, _)
TrailingCRLF(s, i) == IF i < 1 \/ s[i] \notin {"\r", "\n"} THEN Len(s) - i ELSE TrailingCRLF(s, i - 1)

RStripCRLF(s) == Take(s, Len(s) - TrailingCRLF(s, Len(s)))

\* s.replace(c, "")
Remove(s, c) == SelectSeq(s, LAMBDA x : x # c)

\* s.lstrip("/")
RECURSIVE LeadingSlash(_, _)
LeadingSlash(s, i) == IF i > Len(s) \/ s[i] # "/" THEN i - 1 ELSE LeadingSlash(s, i + 1)

LStripSlash(s) == Drop(s, LeadingSlash(s, 1))

\* s.split(c): every field between occurrences of c, at least one field;
\* SplitAt continues from the first occurrence k of c (0 for none).
RECURSIVE Split(_, _)
RECURSIVE SplitAt(_, _, _)
SplitAt(s, c, k) == IF k = 0 THEN <<s>> ELSE <<Take(s, k - 1)>> \o Split(Drop(s, k), c)
Split(s, c) == SplitAt(s, c, Find(s, c))

\* The two parts of s around its position k, or s alone when k = 0.
CutAt(s, k) == IF k = 0 THEN <<s>> ELSE <<Take(s, k - 1), Drop(s, k)>>

\* s.split(c, 1): at most one split, at the first c
Split1(s, c) == CutAt(s, Find(s, c))

\* s.rsplit(c, 1): at most one split, at the last c
RSplit1(s, c) == CutAt(s, RFind(s, c))

\* sep.join(parts)
RECURSIVE Join(_, _)
Join(parts, sep) ==
  IF parts = << >> THEN << >>
  ELSE IF Len(parts) = 1 THEN parts[1]
  ELSE parts[1] \o sep \o Join(Tail(parts), sep)

\* The value of every decimal digit.
DigitOf == [c \in {Digits[i] : i \in 1..10} |-> (CHOOSE i \in 1..10 : Digits[i] = c) - 1]

DigitVal(c) == DigitOf[c]
IsDigit(c) == c \in DOMAIN DigitOf

RECURSIVE DigitsVal(_)
DigitsVal(s) == IF s = << >> THEN 0 ELSE 10 * DigitsVal(Take(s, Len(s) - 1)) + DigitVal(s[Len(s)])

\* int(s): white space around the number is ignored, one sign is allowed,
\* anything else raises ValueError (ok = FALSE).
IntParse(s) ==
  LET t == Strip(s)
      signed == t # << >> /\ t[1] \in {"+", "-"}
      d == IF signed THEN Tail(t) ELSE t
  IN IF d # << >> /\ \A i \in 1..Len(d) : IsDigit(d[i])
     THEN [ok |-> TRUE, val |-> IF signed /\ t[1] = "-" THEN 0 - DigitsVal(d) ELSE DigitsVal(d)]
     ELSE [ok |-> FALSE, val |-> 0]

\* str(n) for n >= 0
RECURSIVE IntStr(_)
IntStr(n) == IF n < 0 THEN <<"-">> \o IntStr(0 - n) ELSE IF n < 10 THEN <<Digits[n + 1]>> ELSE IntStr(n \div 10) \o <<Digits[(n % 10) + 1]>>

\* The number of bytes of the UTF-8 encoding of a character.  A character
\* outside ASCII is written by its code point, as "U+00E9".
Utf8CharLen(c) ==
  CASE c \in {"U+00E9", "U+00FC"} -> 2
    [] c \in {"U+20AC", "U+2026"} -> 3
    [] c \in {"U+1F600"} -> 4
    [] OTHER -> 1

RECURSIVE Utf8Len(_)
Utf8Len(s) == IF s = << >> THEN 0 ELSE Utf8CharLen(s[1]) + Utf8Len(Tail(s))

(***************************************************************************)
(* gopherlib.py: the URL parser.                                           *)
(***************************************************************************)
GopherURL(host, port, type, selector) ==
  [host |-> host, port |-> port, type |-> type, selector |-> selector]

SchemePrefix == <<"g","o","p","h","e","r",":","/","/">>

\* set("0123456789+ghIisTtP;,dcruwWXsMT")
valid_types ==
  {"0","1","2","3","4","5","6","7","8","9","+","g","h","I","i","s","T","t",
   "P",";",",","d","c","r","u","w","W","X","M"}

\* The fault of taking the first character after the "/" as the type
\* whatever it is.
parse_gopher_url_AnyType(url) ==
  LET parts == Split1(Drop(url, 9), "/")
      hp == Split1(parts[1], ":")
      portParse == IF Len(hp) > 1 THEN IntParse(hp[2]) ELSE [ok |-> TRUE, val |-> DEFAULT_PORT]
      selector_with_type == IF Len(parts) > 1 THEN parts[2] ELSE << >>
  IN IF ~StartsWith(Lower(url), SchemePrefix) \/ ~portParse.ok
     THEN [ok |-> FALSE, url |-> GopherURL(<< >>, 0, "1", << >>)]
     ELSE IF selector_with_type = << >>
     THEN [ok |-> TRUE, url |-> GopherURL(hp[1], portParse.val, "1", << >>)]
     ELSE [ok |-> TRUE, url |-> GopherURL(hp[1], portParse.val, selector_with_type[1],
                                          Tail(selector_with_type))]

\* parse_gopher_url(url): ok = FALSE when it raises ValueError.
parse_gopher_url(url) ==
  IF ~StartsWith(Lower(url), SchemePrefix)
  THEN [ok |-> FALSE, url |-> GopherURL(<< >>, 0, "1", << >>)]
  ELSE
    LET body == Drop(url, 9)
        parts == Split1(body, "/")
        host_port == parts[1]
        selector_with_type == IF Len(parts) > 1 THEN parts[2] ELSE << >>
        hasPort == Contains(host_port, ":")
        hp == Split1(host_port, ":")
        host == hp[1]
        portParse == IF hasPort THEN IntParse(hp[2]) ELSE [ok |-> TRUE, val |-> DEFAULT_PORT]
        port == portParse.val
    IN IF ~portParse.ok THEN [ok |-> FALSE, url |-> GopherURL(<< >>, 0, "1", << >>)]
       ELSE IF selector_with_type = << >>
       THEN [ok |-> TRUE, url |-> GopherURL(host, port, "1", << >>)]
       ELSE
         LET type_char == selector_with_type[1]
             selector == Tail(selector_with_type)
         IN IF type_char \notin valid_types
            THEN [ok |-> TRUE, url |-> GopherURL(host, port, "1", selector_with_type)]
            ELSE [ok |-> TRUE, url |-> GopherURL(host, port, type_char, selector)]

(***************************************************************************)
(* gopherlib.py: menu entries and the two menu decoders.                   *)
(***************************************************************************)
\* A dict of attributes is a function from keys to lists of lines.
EmptyDict == [k \in {} |-> << >>]

MenuEntry(type, display, selector, host, port, attributes) ==
  [type |-> type, display |-> display, selector |-> selector, host |-> host,
   port |-> port, attributes |-> attributes]

\* _make_menu_entry: attributes is an optional dict; an empty dict is falsy,
\* so "attributes.copy() if attributes else None" stores None for it too.
make_menu_entry(type_char, display, selector, host, port, attributes) ==
  LET p == IntParse(port)
      pnum == IF port = << >> THEN DEFAULT_PORT ELSE IF p.ok THEN p.val ELSE DEFAULT_PORT
  IN MenuEntry(type_char, display, selector, host, pnum,
               IF attributes # << >> /\ DOMAIN attributes[1] # {} THEN attributes ELSE << >>)

Field(fields, n) == IF Len(fields) >= n THEN fields[n] ELSE << >>

\* One line of parse_menu's loop body, for a non-empty line.
MenuLineEntry(line) ==
  LET fields == Split(Tail(line), TAB)
  IN make_menu_entry(line[1], Field(fields, 1), Field(fields, 2), Field(fields, 3),
                     Field(fields, 4), << >>)

\* The fault of skipping the terminator line and decoding what follows it.
RECURSIVE parse_menu_PastTerminator(_)
parse_menu_PastTerminator(lines) ==
  IF lines = << >> THEN << >>
  ELSE IF Strip(lines[1]) = <<".">> \/ lines[1] = << >> THEN parse_menu_PastTerminator(Tail(lines))
  ELSE <<MenuLineEntry(lines[1])>> \o parse_menu_PastTerminator(Tail(lines))

RECURSIVE parse_menu(_)
parse_menu(lines) ==
  IF lines = << >> THEN << >>
  ELSE IF Strip(lines[1]) = <<".">> THEN << >>
  ELSE IF lines[1] = << >> THEN parse_menu(Tail(lines))
  ELSE <<MenuLineEntry(lines[1])>> \o parse_menu(Tail(lines))

make_menu_entry_from_info(info_line) ==
  LET fields == IF Len(info_line) > 1 THEN Split(Tail(info_line), TAB) ELSE << >>
  IN make_menu_entry(info_line[1], Field(fields, 1), Field(fields, 2), Field(fields, 3),
                     Field(fields, 4), <<EmptyDict>>)

InfoPrefix == <<"+","I","N","F","O",":">>

\* The state of parse_menu_plus's loop: entries, current_entry as an index
\* into entries (0 is None), current_attr as an optional label, attr_buffer,
\* and whether the loop has left by break.
PlusInit == [entries |-> << >>, cur |-> 0, attr |-> << >>, buf |-> << >>, done |-> FALSE]

\* "if current_attr:" is false for None and for the empty label
AttrOpen(st) == st.attr # << >> /\ st.attr[1] # << >>

\* The fault of replacing the lines a label already has on the entry.
flush_attr_Overwrites(st) ==
  IF st.cur = 0 \/ st.attr = << >>
  THEN [st EXCEPT !.buf = << >>, !.attr = << >>]
  ELSE
    LET e == st.entries[st.cur]
        attrs == IF e.attributes # << >> THEN e.attributes[1] ELSE EmptyDict
        new == [k \in DOMAIN attrs \cup {st.attr[1]} |-> IF k = st.attr[1] THEN st.buf ELSE attrs[k]]
    IN [st EXCEPT !.entries[st.cur].attributes = <<new>>, !.buf = << >>, !.attr = << >>]

\* _flush_attr()
flush_attr(st) ==
  IF st.cur = 0 \/ st.attr = << >>
  THEN [st EXCEPT !.buf = << >>, !.attr = << >>]
  ELSE
    LET e == st.entries[st.cur]
        attrs == IF e.attributes # << >> /\ DOMAIN e.attributes[1] # {} THEN e.attributes[1] ELSE EmptyDict
        key == st.attr[1]
        old == IF key \in DOMAIN attrs THEN attrs[key] ELSE << >>
        new == [k \in DOMAIN attrs \cup {key} |-> IF k = key THEN old \o st.buf ELSE attrs[k]]
    IN [st EXCEPT !.entries[st.cur].attributes = <<new>>, !.buf = << >>, !.attr = << >>]

\* One iteration of parse_menu_plus's loop.
PlusStep(st, raw_line) ==
  LET line == RStripCR(raw_line)
      flushed == IF AttrOpen(st) THEN flush_attr(st) ELSE st
  IN IF line = << >> THEN st
     ELSE IF line = <<".">>
     THEN IF AttrOpen(st) THEN flush_attr(st) ELSE [st EXCEPT !.done = TRUE]
     ELSE IF StartsWith(line, InfoPrefix)
     THEN LET info_line == Drop(line, 6)
          IN IF info_line = << >> THEN flushed
             ELSE [flushed EXCEPT !.entries = Append(flushed.entries, make_menu_entry_from_info(info_line)),
                                  !.cur = Len(flushed.entries) + 1]
     ELSE IF StartsWith(line, <<"+">>) /\ EndsWith(line, <<":">>) /\ Contains(Tail(line), ":")
     THEN [flushed EXCEPT !.attr = <<Upper(SubSeq(line, 2, Len(line) - 1))>>, !.buf = << >>]
     ELSE IF AttrOpen(st) THEN [st EXCEPT !.buf = Append(st.buf, line)]
     ELSE st

RECURSIVE PlusLoop(_, _)
PlusLoop(st, lines) ==
  IF lines = << >> \/ st.done THEN st
  ELSE PlusLoop(PlusStep(st, lines[1]), Tail(lines))

parse_menu_plus(lines) ==
  LET st == PlusLoop(PlusInit, lines)
  IN (IF AttrOpen(st) THEN flush_attr(st) ELSE st).entries

RECURSIVE looks_like_gopher_plus(_)
looks_like_gopher_plus(lines) ==
  IF lines = << >> THEN FALSE
  ELSE IF lines[1] = << >> THEN looks_like_gopher_plus(Tail(lines))
  ELSE StartsWith(lines[1], InfoPrefix)

(***************************************************************************)
(* The servers.  What a server answers is fixed by the request; whether    *)
(* the connection succeeds is not.                                         *)
(***************************************************************************)
\* A classic menu: an information line, an entry without host and port, a
\* search entry without host and port, a WAIS search entry with both, a
\* file entry without port, the terminator, a line after it.
SmallMenu ==
  <<<<"i","I","n","f","o">>,
    <<"1","S","u","b","\t","/","a">>,
    <<"7","F","i","n","d","\t","/","q">>,
    <<"T","W","a","i","s","\t","/","w","\t","g","\t","7","0","7","1">>,
    <<"0","F","i","l","e","\t","/","f","\t","g">>,
    <<".">>,
    <<"1","A","f","t","e","r","\t","/","z","\t","g","\t","7","0">>>>

\* A classic menu of BigMenuLen selectable entries, none naming a host, with
\* information lines before the first and after the fifth.  The third is
\* a picture, of the type "p" that servers use and that is not among
\* valid_types.
BigMenuLine(k) == <<IF k = 3 THEN "p" ELSE "0", "F">> \o IntStr(k) \o <<TAB, "/", "f">>

BigMenu ==
  <<<<"i","H","e","a","d">>>> \o [k \in 1..5 |-> BigMenuLine(k)] \o <<<<"i","M","i","d">>>>
    \o [k \in 1..(BigMenuLen - 5) |-> BigMenuLine(k + 5)] \o <<<<".">>>>

\* A Gopher+ menu: a search entry with declared fields and a prompt.
PlusMenu ==
  <<<<"+","I","N","F","O",":","7","F","i","n","d","\t","/","q","\t","g","\t","7","0","7","0">>,
    <<"+","F","I","E","L","D","S",":">>,
    <<"a","u","t","h","o","r">>,
    <<"t","i","t","l","e">>,
    <<"+","P","R","O","M","P","T",":">>,
    <<"E","n","t","e","r"," ","t","e","r","m","s">>,
    <<".">>>>

\* The answer to a search: one file entry.
HitMenu ==
  <<<<"0","H","i","t","\t","/","f","\t","g","\t","7","0">>,
    <<".">>>>

\* A text of BigFileLen lines.
BigFile == [k \in 1..BigFileLen |-> <<"l">> \o IntStr(k)]

\* An item of two lines with characters of three and of two bytes.
WideItem == <<<<"U+20AC", "1">>, <<"U+00E9">>>>

\* An extended listing that begins with an empty line.
LatePlusMenu == <<<< >>, <<"+","I","N","F","O",":","0","L","a","t","e","\t","/","f","\t","g","\t","7","0">>, <<"+","A","D","M","I","N",":">>, <<"x">>, <<".">>>>

\* A listing whose first line is no +INFO: line and whose second is one.
MixedMenu == <<<<"i","M","i","x","e","d">>, <<"+","I","N","F","O",":","0","O","d","d","\t","/","f","\t","g","\t","7","0">>, <<".">>>>

PlusSuffix == <<TAB, "+">>

\* The lines a server answers a request with.  Host g speaks Gopher+ at its
\* root and every server at /p; every other request is answered the same
\* way with and without the suffix, and a selector no server knows with
\* nothing.
Respond(req) ==
  IF req.selector = << >> /\ req.host = <<"g">> /\ req.suffix = PlusSuffix THEN PlusMenu
  ELSE IF req.selector = <<"/","a","/","b">> THEN SmallMenu
  ELSE IF req.selector = <<"/","a">> THEN BigMenu
  ELSE IF req.selector = <<"/","f">> THEN BigFile
  ELSE IF StartsWith(req.selector, <<"/","q","\t">>) THEN HitMenu
  ELSE IF req.selector = <<"/","e">> THEN WideItem
  ELSE IF StartsWith(req.selector, <<"/","p">>) /\ req.suffix = PlusSuffix THEN LatePlusMenu
  ELSE IF StartsWith(req.selector, <<"/","p">>) THEN HitMenu
  ELSE IF req.selector = <<"/","n">> THEN MixedMenu
  ELSE << >>

(***************************************************************************)
(* gopherlib.py: transactions.  env is the environment of one operation:   *)
(* env[k] says whether the k-th call of _recv_all_lines it makes succeeds   *)
(* (otherwise the call raises: a connection error or a timeout).  net is   *)
(* the list of requests the operation made.                                *)
(***************************************************************************)
Request(host, port, request_selector, suffix) ==
  [host |-> host, port |-> port, selector |-> request_selector, suffix |-> suffix]

\* _recv_all_lines: the request, and the lines read or ok = FALSE.
Received(req, succeeds) ==
  [req |-> req, ok |-> succeeds, lines |-> IF succeeds THEN Respond(req) ELSE << >>]

recv_all_lines(host, port, request_selector, suffix, succeeds) ==
  Received(Request(host, port, request_selector, suffix), succeeds)

\* A request as the session's trace keeps it: what was sent, and whether
\* the connection carried it (ok) or raised.
Attempt(r) == [req |-> r.req, ok |-> r.ok]

\* The fault of giving up when the Gopher+ probe raises.
MenuOf_ProbeFatal(probe, plain) ==
  IF ~probe.ok THEN [ok |-> FALSE, entries |-> << >>, net |-> <<Attempt(probe)>>]
  ELSE IF looks_like_gopher_plus(probe.lines)
  THEN [ok |-> TRUE, entries |-> parse_menu_plus(probe.lines), net |-> <<Attempt(probe)>>]
  ELSE [ok |-> plain.ok, entries |-> IF plain.ok THEN parse_menu(plain.lines) ELSE << >>,
        net |-> <<Attempt(probe), Attempt(plain)>>]

\* _fetch_menu, given what the Gopher+ probe and the plain request meet: the
\* plain request is made only when the probe raised or did not look like
\* Gopher+.
MenuOf(probe, plain) ==
  IF probe.ok /\ looks_like_gopher_plus(probe.lines)
  THEN [ok |-> TRUE, entries |-> parse_menu_plus(probe.lines), net |-> <<Attempt(probe)>>]
  ELSE IF plain.ok
  THEN [ok |-> TRUE, entries |-> parse_menu(plain.lines), net |-> <<Attempt(probe), Attempt(plain)>>]
  ELSE [ok |-> FALSE, entries |-> << >>, net |-> <<Attempt(probe), Attempt(plain)>>]

fetch_menu(host, port, selector, env) ==
  MenuOf(recv_all_lines(host, port, selector, PlusSuffix, env[1]),
         recv_all_lines(host, port, selector, << >>, env[2]))

\* The payload of a view, by kind: the entries of a menu, the lines of a
\* file, (blen, note) of a binary, the endpoint of a search.
Payload(entries, lines, blen, note, endpoint) ==
  [entries |-> entries, lines |-> lines, blen |-> blen, note |-> note, endpoint |-> endpoint]

NoPayload == Payload(<< >>, << >>, 0, "", << >>)

\* What fetch and search return: (view_kind, payload), or ok = FALSE when
\* the exception of a failed request propagates; and the requests made.
FetchResult(ok, kind, payload, net) ==
  [ok |-> ok, kind |-> kind, payload |-> payload, net |-> net]

MenuFetched(m) == FetchResult(m.ok, "menu", Payload(m.entries, << >>, 0, "", << >>), m.net)

FileFetched(r) == FetchResult(r.ok, "file", Payload(<< >>, r.lines, 0, "", << >>), <<Attempt(r)>>)

\* The fault of letting the exception of a failed request leave fetch.
BinaryFetched_Raises(r) ==
  FetchResult(r.ok, "binary",
    Payload(<< >>, << >>, Utf8Len(Join(r.lines, <<"\n">>)), "Non-text gopher type", << >>),
    <<Attempt(r)>>)

BinaryFetched(r) ==
  IF r.ok
  THEN FetchResult(TRUE, "binary",
         Payload(<< >>, << >>, Utf8Len(Join(r.lines, <<"\n">>)), "Non-text gopher type", << >>),
         <<Attempt(r)>>)
  ELSE FetchResult(TRUE, "binary", Payload(<< >>, << >>, 0, "Error fetching: ", << >>), <<Attempt(r)>>)

SearchLabel == <<"[","S","E","A","R","C","H","]">>

\* The fault of comparing the item type with "7" and "t" as written, so
\* that "T" is fetched as a binary.
fetch_CaseSensitive(url, env) ==
  IF url.type = "1"
  THEN MenuFetched(fetch_menu(url.host, url.port, url.selector, env))
  ELSE IF url.type \in {"7", "t"}
  THEN FetchResult(TRUE, "search",
         Payload(<< >>, << >>, 0, "",
                 <<MenuEntry(url.type, SearchLabel, url.selector, url.host, url.port, << >>)>>),
         << >>)
  ELSE IF url.type = "0"
  THEN FileFetched(recv_all_lines(url.host, url.port, url.selector, << >>, env[1]))
  ELSE BinaryFetched(recv_all_lines(url.host, url.port, url.selector, << >>, env[1]))

\* GopherClient.fetch
fetch(url, env) ==
  IF LowerChar(url.type) = "1"
  THEN MenuFetched(fetch_menu(url.host, url.port, url.selector, env))
  ELSE IF LowerChar(url.type) \in {"7", "t"}
  THEN FetchResult(TRUE, "search",
         Payload(<< >>, << >>, 0, "",
                 <<MenuEntry(url.type, SearchLabel, url.selector, url.host, url.port, << >>)>>),
         << >>)
  ELSE IF url.type = "0"
  THEN FileFetched(recv_all_lines(url.host, url.port, url.selector, << >>, env[1]))
  ELSE BinaryFetched(recv_all_lines(url.host, url.port, url.selector, << >>, env[1]))

\* The fault of sending the endpoint's selector without the query.
client_search_NoQuery(endpoint, query_payload, env) ==
  MenuFetched(fetch_menu(endpoint.host, endpoint.port, endpoint.selector, env))

\* GopherClient.search
client_search(endpoint, query_payload, env) ==
  MenuFetched(fetch_menu(endpoint.host, endpoint.port,
                         IF query_payload # << >>
                         THEN endpoint.selector \o <<TAB>> \o query_payload
                         ELSE endpoint.selector,
                         env))

\* up_one(selector)
up_one(selector) ==
  IF selector = << >> THEN << >>
  ELSE IF ~Contains(selector, "/") THEN << >>
  ELSE RSplit1(selector, "/")[1]

(***************************************************************************)
(* shlex.split(terms), as main.py calls it: POSIX rules, white space       *)
(* splits, no comments.  st is the lexer's state: " " between tokens, "a"  *)
(* in a word, a quote character inside quotes, "\\" after an escape.       *)
(* ok = FALSE when it raises ValueError (no closing quotation, no escaped  *)
(* character).                                                             *)
(***************************************************************************)
ShlexQuotes == {"'", "\""}

RECURSIVE ShlexLoop(_, _, _, _, _, _, _)
ShlexLoop(s, i, st, tok, quoted, esc, out) ==
  IF i > Len(s)
  THEN IF st \in ShlexQuotes \/ st = "\\" THEN [ok |-> FALSE, tokens |-> << >>]
       ELSE IF st = "a" /\ (tok # << >> \/ quoted) THEN [ok |-> TRUE, tokens |-> Append(out, tok)]
       ELSE [ok |-> TRUE, tokens |-> out]
  ELSE
    LET c == s[i]
    IN IF st = " "
       THEN IF IsSpace(c) /\ c # "\f" THEN ShlexLoop(s, i + 1, " ", << >>, FALSE, " ", out)
            ELSE IF c = "\\" THEN ShlexLoop(s, i + 1, "\\", tok, quoted, "a", out)
            ELSE IF c \in ShlexQuotes THEN ShlexLoop(s, i + 1, c, tok, quoted, esc, out)
            ELSE ShlexLoop(s, i + 1, "a", <<c>>, quoted, esc, out)
       ELSE IF st \in ShlexQuotes
       THEN IF c = st THEN ShlexLoop(s, i + 1, "a", tok, TRUE, esc, out)
            ELSE IF c = "\\" /\ st = "\"" THEN ShlexLoop(s, i + 1, "\\", tok, TRUE, st, out)
            ELSE ShlexLoop(s, i + 1, st, Append(tok, c), TRUE, esc, out)
       ELSE IF st = "\\"
       THEN LET kept == IF esc \in ShlexQuotes /\ c # "\\" /\ c # esc THEN Append(tok, "\\") ELSE tok
            IN ShlexLoop(s, i + 1, esc, Append(kept, c), quoted, esc, out)
       ELSE \* st = "a"
            IF IsSpace(c) /\ c # "\f"
            THEN IF tok # << >> \/ quoted
                 THEN ShlexLoop(s, i + 1, " ", << >>, FALSE, " ", Append(out, tok))
                 ELSE ShlexLoop(s, i + 1, " ", tok, quoted, esc, out)
            ELSE IF c \in ShlexQuotes THEN ShlexLoop(s, i + 1, c, tok, quoted, esc, out)
            ELSE IF c = "\\" THEN ShlexLoop(s, i + 1, "\\", tok, quoted, "a", out)
            ELSE ShlexLoop(s, i + 1, "a", Append(tok, c), quoted, esc, out)

shlex_split(s) == ShlexLoop(s, 1, " ", << >>, FALSE, " ", << >>)

(***************************************************************************)
(* main.py: ViewState and Session.  A session is its history (a list of    *)
(* references to ViewState objects), current (a reference, 0 for None) and *)
(* the ViewState objects it can reach, by reference.                       *)
(***************************************************************************)
ViewState(url, view_kind, payload) ==
  [url |-> url, view_kind |-> view_kind, payload |-> payload,
   menu_offset |-> 0, file_offset |-> 0, pending_search_endpoint |-> << >>]

\* Session.__init__
NewSession == [history |-> << >>, current |-> 0, views |-> [r \in {} |-> 0]]

\* The references a session holds, and a reference no live object has.
Live(sess) == {sess.history[i] : i \in 1..Len(sess.history)} \cup ({sess.current} \ {0})

NewRef(sess) ==
  CHOOSE r \in 1..(Cardinality(DOMAIN sess.views) + 1) :
    r \notin DOMAIN sess.views /\ \A q \in 1..(r - 1) : q \in DOMAIN sess.views

\* Objects no reference reaches are gone.
Collect(sess) == [sess EXCEPT !.views = [r \in Live(sess) |-> sess.views[r]]]

Cur(sess) == sess.views[sess.current]

\* What an operation of the session returns to its caller: the session
\* after it, the text returned (out), the requests it made (net), whether
\* an exception left it (raised), and the menu entry it chose, if any.
Result(sess, out, net, raised, entry) ==
  [sess |-> sess, out |-> out, net |-> net, raised |-> raised, entry |-> entry]

\* The returned text, by its parts: kind names the format ("message" is one
\* of the fixed sentences, msg), the rest are the values formatted into it.
Text(kind, msg) ==
  [kind |-> kind, msg |-> msg, url |-> << >>, from |-> 0, to |-> 0, total |-> 0,
   rows |-> << >>, lines |-> << >>, title |-> << >>, veronica |-> FALSE,
   fields |-> << >>, notes |-> << >>, blen |-> 0, note |-> ""]

Message(msg) == Text("message", msg)
NoText == Text("none", "")

\* s[start:start + n] with start >= 0 counted from 0
Slice(s, start, n) ==
  IF start >= Len(s) THEN << >>
  ELSE SubSeq(s, start + 1, IF start + n > Len(s) THEN Len(s) ELSE start + n)

\* The fault of counting the information lines among the entries.
selectable_entries_All(sess) ==
  IF sess.current = 0 \/ Cur(sess).view_kind # "menu" THEN << >>
  ELSE Cur(sess).payload.entries

\* Session._selectable_entries
selectable_entries(sess) ==
  IF sess.current = 0 \/ Cur(sess).view_kind # "menu" THEN << >>
  ELSE SelectSeq(Cur(sess).payload.entries, LAMBDA e : e.type # "i")

\* [line.strip() for line in lines if line.strip()]
RECURSIVE StrippedNonEmpty(_)
StrippedNonEmpty(lines) ==
  IF lines = << >> THEN << >>
  ELSE (IF Strip(lines[1]) # << >> THEN <<Strip(lines[1])>> ELSE << >>) \o StrippedNonEmpty(Tail(lines))

KeyFIELDS == <<"F","I","E","L","D","S">>
KeyFIELD == <<"F","I","E","L","D">>
KeySEARCHFIELDS == <<"S","E","A","R","C","H","F","I","E","L","D","S">>
KeyPROMPT == <<"P","R","O","M","P","T">>
KeyABSTRACT == <<"A","B","S","T","R","A","C","T">>

\* "not endpoint or not endpoint.attributes"; endpoint is an optional entry
NoAttributes(endpoint) ==
  endpoint = << >> \/ endpoint[1].attributes = << >> \/ DOMAIN endpoint[1].attributes[1] = {}

\* Session._search_fields
search_fields(endpoint) ==
  IF NoAttributes(endpoint) THEN << >>
  ELSE LET a == endpoint[1].attributes[1]
       IN IF KeyFIELDS \in DOMAIN a THEN StrippedNonEmpty(a[KeyFIELDS])
          ELSE IF KeyFIELD \in DOMAIN a THEN StrippedNonEmpty(a[KeyFIELD])
          ELSE IF KeySEARCHFIELDS \in DOMAIN a THEN StrippedNonEmpty(a[KeySEARCHFIELDS])
          ELSE << >>

\* Session._search_prompts
search_prompts(endpoint) ==
  IF NoAttributes(endpoint) THEN << >>
  ELSE LET a == endpoint[1].attributes[1]
       IN (IF KeyPROMPT \in DOMAIN a THEN StrippedNonEmpty(a[KeyPROMPT]) ELSE << >>)
          \o (IF KeyABSTRACT \in DOMAIN a THEN StrippedNonEmpty(a[KeyABSTRACT]) ELSE << >>)

\* Session._render_search_prompt; display_title is an optional str
render_search_prompt(sess, display_title) ==
  LET endpoint == IF sess.current # 0 THEN Cur(sess).pending_search_endpoint ELSE << >>
  IN [Text("prompt", "") EXCEPT
        !.title = IF display_title # << >> /\ display_title[1] # << >> THEN display_title ELSE << >>,
        !.veronica = endpoint # << >> /\ UpperChar(endpoint[1].type) = "T",
        !.fields = search_fields(endpoint),
        !.notes = search_prompts(endpoint)]

NoTitle == <<"(","n","o"," ","t","i","t","l","e",")">>

\* The fault of numbering the rows of a page from 1.
RenderMenu_FromOne(vs, entries, page) ==
  IF entries = << >> THEN [Text("empty menu", "") EXCEPT !.url = <<vs.url>>]
  ELSE [Text("menu", "") EXCEPT
          !.url = <<vs.url>>, !.from = vs.menu_offset + 1, !.to = vs.menu_offset + Len(page),
          !.total = Len(entries),
          !.rows = [i \in 1..Len(page) |->
                      [n |-> i, type |-> page[i].type,
                       display |-> IF page[i].display # << >> THEN page[i].display ELSE NoTitle]]]

\* The menu branch of render: entries are the selectable entries, page the
\* entries of the current page.
RenderMenu(vs, entries, page) ==
  IF entries = << >> THEN [Text("empty menu", "") EXCEPT !.url = <<vs.url>>]
  ELSE [Text("menu", "") EXCEPT
          !.url = <<vs.url>>, !.from = vs.menu_offset + 1, !.to = vs.menu_offset + Len(page),
          !.total = Len(entries),
          !.rows = [i \in 1..Len(page) |->
                      [n |-> i - 1, type |-> page[i].type,
                       display |-> IF page[i].display # << >> THEN page[i].display ELSE NoTitle]]]

\* The file branch of render: page is the lines of the current page.
RenderFile(vs, page) ==
  [Text("file", "") EXCEPT
     !.url = <<vs.url>>, !.lines = page, !.from = vs.file_offset + 1,
     !.to = vs.file_offset + Len(page), !.total = Len(vs.payload.lines)]

\* Session.render
render(sess) ==
  IF sess.current = 0 THEN Message("Nothing open yet.")
  ELSE IF Cur(sess).view_kind = "menu"
  THEN RenderMenu(Cur(sess), selectable_entries(sess),
                  Slice(selectable_entries(sess), Cur(sess).menu_offset, MENU_PAGE_SIZE))
  ELSE IF Cur(sess).view_kind = "file"
  THEN RenderFile(Cur(sess), Slice(Cur(sess).payload.lines, Cur(sess).file_offset, FILE_PAGE_SIZE))
  ELSE IF Cur(sess).view_kind = "search" THEN render_search_prompt(sess, << >>)
  ELSE IF Cur(sess).view_kind = "binary"
  THEN [Text("binary", "") EXCEPT !.url = <<Cur(sess).url>>, !.blen = Cur(sess).payload.blen,
                                  !.note = Cur(sess).payload.note]
  ELSE [Text("unknown", "") EXCEPT !.url = <<Cur(sess).url>>]

\* named[key] = value on an insertion-ordered dict, kept as a list of pairs
DictSet(named, key, value) ==
  IF \E i \in 1..Len(named) : named[i].k = key
  THEN [i \in 1..Len(named) |-> IF named[i].k = key THEN [k |-> key, v |-> value] ELSE named[i]]
  ELSE Append(named, [k |-> key, v |-> value])

DictHas(named, key) == \E i \in 1..Len(named) : named[i].k = key
DictGet(named, key) == named[CHOOSE i \in 1..Len(named) : named[i].k = key].v
DictDel(named, key) == SelectSeq(named, LAMBDA p : p.k # key)
DictValues(named) == [i \in 1..Len(named) |-> named[i].v]

\* The loop of _build_search_query over the tokens: named and positional.
RECURSIVE Partition(_, _, _)
Partition(tokens, named, positional) ==
  IF tokens = << >> THEN [named |-> named, positional |-> positional]
  ELSE LET token == tokens[1]
       IN IF Contains(token, "=")
          THEN LET kv == Split1(token, "=")
               IN Partition(Tail(tokens), DictSet(named, Lower(Strip(kv[1])), kv[2]), positional)
          ELSE Partition(Tail(tokens), named, Append(positional, token))

\* The fault of filling a field from the positional tokens before the
\* named values.
RECURSIVE FillFields_PositionalFirst(_, _, _, _)
FillFields_PositionalFirst(fields, named, positional, values) ==
  IF fields = << >> THEN values \o positional \o DictValues(named)
  ELSE IF positional # << >>
  THEN FillFields_PositionalFirst(Tail(fields), named, Tail(positional), Append(values, positional[1]))
  ELSE IF DictHas(named, Lower(fields[1]))
  THEN FillFields_PositionalFirst(Tail(fields), DictDel(named, Lower(fields[1])), positional,
                                  Append(values, DictGet(named, Lower(fields[1]))))
  ELSE FillFields_PositionalFirst(Tail(fields), named, positional, Append(values, << >>))

\* The loop over the declared fields, then the residual.
RECURSIVE FillFields(_, _, _, _)
FillFields(fields, named, positional, values) ==
  IF fields = << >> THEN values \o positional \o DictValues(named)
  ELSE LET lookup_key == Lower(fields[1])
       IN IF DictHas(named, lookup_key)
          THEN FillFields(Tail(fields), DictDel(named, lookup_key), positional,
                          Append(values, DictGet(named, lookup_key)))
          ELSE IF positional # << >>
          THEN FillFields(Tail(fields), named, Tail(positional), Append(values, positional[1]))
          ELSE FillFields(Tail(fields), named, positional, Append(values, << >>))

\* _build_search_query after shlex.split, which gave sp.
QueryOf(sp, fields, parts) ==
  IF ~sp.ok THEN [ok |-> FALSE, query |-> << >>]
  ELSE IF sp.tokens = << >> THEN [ok |-> TRUE, query |-> << >>]
  ELSE IF fields # << >>
  THEN [ok |-> TRUE, query |-> Join(FillFields(fields, parts.named, parts.positional, << >>), <<TAB>>)]
  ELSE [ok |-> TRUE, query |-> Join(<<Join(sp.tokens, <<" ">>)>>, <<TAB>>)]

QueryOfTokens(sp, fields) == QueryOf(sp, fields, Partition(sp.tokens, << >>, << >>))

\* Session._build_search_query; endpoint is an entry.  ok = FALSE when
\* shlex.split raises ValueError.
build_search_query(endpoint, terms) ==
  QueryOfTokens(shlex_split(terms), search_fields(<<endpoint>>))

\* self.current = vs for a new object vs, which gets the reference r
SetCurrentAt(sess, vs, r) ==
  [sess EXCEPT !.current = r,
               !.views = [q \in DOMAIN sess.views \cup {r} |-> IF q = r THEN vs ELSE sess.views[q]]]

SetCurrentNew(sess, vs) == SetCurrentAt(sess, vs, NewRef(sess))

\* self.history = [self.current]
HistoryOfCurrent(sess) == Collect([sess EXCEPT !.history = <<sess.current>>])

\* self.history.append(self.current)
HistoryPlusCurrent(sess) == Collect([sess EXCEPT !.history = Append(sess.history, sess.current)])

\* The fault of keeping the earlier history under a freshly opened view.
Replace_KeepsHistory(sess, vs) == HistoryPlusCurrent(SetCurrentNew(sess, vs))

\* self.current = vs; self.history = [vs]
Replace(sess, vs) == HistoryOfCurrent(SetCurrentNew(sess, vs))

\* The fault of appending the new view without making it current.
Push_KeepsCurrent(sess, vs) ==
  Collect([SetCurrentNew(sess, vs) EXCEPT !.history = Append(sess.history, NewRef(sess)),
                                          !.current = sess.current])

\* self.history.append(new_vs); self.current = new_vs
Push(sess, vs) == HistoryPlusCurrent(SetCurrentNew(sess, vs))

\* An operation that returns a fixed sentence and changes nothing.
Says(sess, msg) == Result(sess, Message(msg), << >>, FALSE, << >>)

\* An operation left by an exception, after the requests net.
Raises(sess, net, entry) == Result(sess, NoText, net, TRUE, entry)

\* return self.render()
Rendered(sess, net, entry) == Result(sess, render(sess), net, FALSE, entry)

\* return self._render_search_prompt(display_title)
Prompted(sess, display_title, net, entry) ==
  Result(sess, render_search_prompt(sess, display_title), net, FALSE, entry)

\* open_url after the fetch, which gave f.
OpenFetched(sess, gurl, f) ==
  IF ~f.ok THEN Raises(sess, f.net, << >>)
  ELSE IF f.kind = "search"
  THEN Prompted(Collect(SetCurrentNew(sess,
                  [ViewState(gurl, f.kind, f.payload) EXCEPT !.pending_search_endpoint = f.payload.endpoint])),
                << >>, f.net, << >>)
  ELSE Rendered(Replace(sess, ViewState(gurl, f.kind, f.payload)), f.net, << >>)

\* The fault of dropping the session's views on a string that is no URL.
OpenParsed_Resets(sess, p, env) ==
  IF ~p.ok THEN Says(NewSession, "Invalid URL: ")
  ELSE OpenFetched(sess, p.url, fetch(p.url, env))

\* open_url after parse_gopher_url, which gave p.
OpenParsed(sess, p, env) ==
  IF ~p.ok THEN Says(sess, "Invalid URL: ")
  ELSE OpenFetched(sess, p.url, fetch(p.url, env))

\* Session.open_url
open_url(sess, url_str, env) == OpenParsed(sess, parse_gopher_url(url_str), env)

\* The descriptor select_index resolves for an entry of the current menu.
EntryUrl(sess, entry) ==
  GopherURL(IF entry.host # << >> THEN entry.host ELSE Cur(sess).url.host,
            IF entry.port # 0 THEN entry.port ELSE Cur(sess).url.port,
            entry.type, entry.selector)

\* The fault of pushing the view before the fetch is known to have succeeded.
SelectFetched_PushesFirst(sess, entry, entry_url, f) ==
  IF ~f.ok THEN Raises(Push(sess, ViewState(entry_url, f.kind, f.payload)), f.net, <<entry>>)
  ELSE Rendered(Push(sess, ViewState(entry_url, f.kind, f.payload)), f.net, <<entry>>)

\* select_index after the fetch of entry_url, which gave f.
SelectFetched(sess, entry, entry_url, f) ==
  IF ~f.ok THEN Raises(sess, f.net, <<entry>>)
  ELSE Rendered(Push(sess, ViewState(entry_url, f.kind, f.payload)), f.net, <<entry>>)

\* The fault of prompting for a search without recording its endpoint.
SelectEntry_NoPending(sess, entry, env) ==
  IF LowerChar(entry.type) \in {"7", "t"}
  THEN Prompted(sess, <<entry.display>>, << >>, <<entry>>)
  ELSE SelectFetched(sess, entry, EntryUrl(sess, entry), fetch(EntryUrl(sess, entry), env))

\* select_index once the entry is chosen.
SelectEntry(sess, entry, env) ==
  IF LowerChar(entry.type) \in {"7", "t"}
  THEN Prompted([sess EXCEPT !.views[sess.current].pending_search_endpoint = <<entry>>],
                <<entry.display>>, << >>, <<entry>>)
  ELSE SelectFetched(sess, entry, EntryUrl(sess, entry), fetch(EntryUrl(sess, entry), env))

\* select_index on the entries of the current page.
SelectOnPage(sess, idx, page_entries, env) ==
  IF idx < 0 \/ idx >= Len(page_entries) THEN Says(sess, "Invalid selection on this page.")
  ELSE SelectEntry(sess, page_entries[idx + 1], env)

\* Session.select_index
select_index(sess, idx, env) ==
  IF sess.current = 0 \/ Cur(sess).view_kind # "menu"
  THEN Says(sess, "Not in a menu; numbers apply only to menu listings.")
  ELSE SelectOnPage(sess, idx,
                    Slice(selectable_entries(sess), Cur(sess).menu_offset, MENU_PAGE_SIZE), env)

\* search after the transaction, which gave f.
SearchFetched(sess, endpoint, f) ==
  IF ~f.ok THEN Raises(sess, f.net, << >>)
  ELSE Rendered(Push(sess, ViewState(GopherURL(endpoint.host, endpoint.port, "1", endpoint.selector),
                                     f.kind, f.payload)),
                f.net, << >>)

\* search after _build_search_query, which gave b.
SearchBuilt(sess, endpoint, b, env) ==
  IF ~b.ok THEN Raises(sess, << >>, << >>)
  ELSE IF b.query = << >>
  THEN Says(sess, "Provide search terms (or field=value pairs) for this endpoint.")
  ELSE SearchFetched(sess, endpoint, client_search(endpoint, b.query, env))

\* Session.search
search(sess, terms, env) ==
  IF sess.current = 0 THEN Says(sess, "Open a gopher search endpoint first.")
  ELSE IF Cur(sess).pending_search_endpoint = << >>
  THEN Says(sess, "No search pending. Select a type-7/T item first, then use 's <terms>'.")
  ELSE IF Strip(terms) = << >> THEN Prompted(sess, << >>, << >>, << >>)
  ELSE SearchBuilt(sess, Cur(sess).pending_search_endpoint[1],
                   build_search_query(Cur(sess).pending_search_endpoint[1], terms), env)

\* self.history.pop(); self.current = self.history[-1]
Pop(sess) ==
  Collect([sess EXCEPT !.history = SubSeq(sess.history, 1, Len(sess.history) - 1),
                       !.current = sess.history[Len(sess.history) - 1]])

\* up after the fetch of parent_url, which gave f.
UpFetched(sess, parent_url, f) ==
  IF ~f.ok THEN Raises(sess, f.net, << >>)
  ELSE Rendered(Replace(sess, ViewState(parent_url, f.kind, f.payload)), f.net, << >>)

\* The fault of asking again for the selector of the current view.
ParentUrl_SameSelector(url) == GopherURL(url.host, url.port, "1", url.selector)

\* parent_url
ParentUrl(url) == GopherURL(url.host, url.port, "1", up_one(url.selector))

\* Session.up
up(sess, env) ==
  IF sess.current = 0 THEN Says(sess, "Nothing open yet. Try: u gopher://gopher.floodgap.com/")
  ELSE IF Len(sess.history) > 1 THEN Rendered(Pop(sess), << >>, << >>)
  ELSE UpFetched(sess, ParentUrl(Cur(sess).url), fetch(ParentUrl(Cur(sess).url), env))

\* The fault of leaving the port out of the text.
UrlText_NoPort(url) == SchemePrefix \o url.host \o <<"/">> \o <<url.type>> \o url.selector

\* The text of a descriptor: f"gopher://{host}:{port}/{type}{selector}"
UrlText(url) ==
  SchemePrefix \o url.host \o <<":">> \o IntStr(url.port) \o <<"/">> \o <<url.type>> \o url.selector

\* The fault of showing the first page again while telling the URL.
current_url_Rewinds(sess) ==
  IF sess.current = 0 THEN Says(sess, "Nothing open yet.")
  ELSE Result([sess EXCEPT !.views[sess.current].menu_offset = 0, !.views[sess.current].file_offset = 0],
              [Text("url", "") EXCEPT !.lines = <<UrlText(Cur(sess).url)>>], << >>, FALSE, << >>)

\* Session.current_url
current_url(sess) ==
  IF sess.current = 0 THEN Says(sess, "Nothing open yet.")
  ELSE Result(sess, [Text("url", "") EXCEPT !.lines = <<UrlText(Cur(sess).url)>>], << >>, FALSE, << >>)

\* The fault of paging on without looking for the end.
next_page_NoEnd(sess) ==
  IF sess.current = 0 THEN Says(sess, "Nothing open yet.")
  ELSE IF Cur(sess).view_kind = "menu"
  THEN Rendered([sess EXCEPT !.views[sess.current].menu_offset = @ + MENU_PAGE_SIZE], << >>, << >>)
  ELSE IF Cur(sess).view_kind = "file"
  THEN Rendered([sess EXCEPT !.views[sess.current].file_offset = @ + FILE_PAGE_SIZE], << >>, << >>)
  ELSE Says(sess, "Paging not applicable for this view.")

\* Session.next_page
next_page(sess) ==
  IF sess.current = 0 THEN Says(sess, "Nothing open yet.")
  ELSE IF Cur(sess).view_kind = "menu"
  THEN IF Cur(sess).menu_offset + MENU_PAGE_SIZE >= Len(selectable_entries(sess))
       THEN Says(sess, "End of menu.")
       ELSE Rendered([sess EXCEPT !.views[sess.current].menu_offset = @ + MENU_PAGE_SIZE], << >>, << >>)
  ELSE IF Cur(sess).view_kind = "file"
  THEN IF Cur(sess).file_offset + FILE_PAGE_SIZE >= Len(Cur(sess).payload.lines)
       THEN Says(sess, "End of file.")
       ELSE Rendered([sess EXCEPT !.views[sess.current].file_offset = @ + FILE_PAGE_SIZE], << >>, << >>)
  ELSE Says(sess, "Paging not applicable for this view.")

Max0(n) == IF n < 0 THEN 0 ELSE n

\* Session.prev_page
prev_page(sess) ==
  IF sess.current = 0 THEN Says(sess, "Nothing open yet.")
  ELSE IF Cur(sess).view_kind = "menu"
  THEN IF Cur(sess).menu_offset = 0
       THEN Says(sess, "Already at start.")
       ELSE Rendered([sess EXCEPT !.views[sess.current].menu_offset = Max0(@ - MENU_PAGE_SIZE)], << >>, << >>)
  ELSE IF Cur(sess).view_kind = "file"
  THEN IF Cur(sess).file_offset = 0
       THEN Says(sess, "Already at start.")
       ELSE Rendered([sess EXCEPT !.views[sess.current].file_offset = Max0(@ - FILE_PAGE_SIZE)], << >>, << >>)
  ELSE Says(sess, "Paging not applicable for this view.")

(***************************************************************************)
(* main.py: the command handler App.on_receive.  A packet is the dict the  *)
(* radio library hands over, by the keys the handler reads: decoded_text   *)
(* is packet["decoded"]["text"], text is packet["text"], fromId and sender *)
(* are the keys of those names; each is an optional, << >> when the key is *)
(* absent.  The packets of the model carry no "from", "src" or payload.    *)
(***************************************************************************)
Packet(decoded_text, text, fromId, sender, channel) ==
  [decoded_text |-> decoded_text, text |-> text, fromId |-> fromId, sender |-> sender,
   channel |-> channel]

\* _extract_text: None is << >>
extract_text(packet) ==
  IF packet.decoded_text # << >> THEN packet.decoded_text
  ELSE IF packet.text # << >> THEN packet.text
  ELSE << >>

\* _sender_id: the first of the keys that holds a non-empty str
sender_id(packet) ==
  IF packet.fromId # << >> /\ packet.fromId[1] # "" THEN packet.fromId
  ELSE IF packet.sender # << >> /\ packet.sender[1] # "" THEN packet.sender
  ELSE << >>

\* \w of a regular expression, on ASCII
IsWordChar(c) == c \in DOMAIN LowerOf \/ c \in DOMAIN UpperOf \/ IsDigit(c) \/ c = "_"

NoSpaceIn(s) == \A i \in 1..Len(s) : ~IsSpace(s[i])

\* RE_URL_CMD.match(msg), ^\s*u\s+(\S+)\s*$ ignoring case: the group, or
\* << >> for no match.
UrlCmdOf(m) ==
  IF /\ Len(m) >= 3
     /\ LowerChar(m[1]) = "u"
     /\ IsSpace(m[2])
     /\ Strip(Drop(m, 1)) # << >>
     /\ NoSpaceIn(Strip(Drop(m, 1)))
  THEN <<Strip(Drop(m, 1))>>
  ELSE << >>

RE_URL_CMD(msg) == UrlCmdOf(LStrip(msg))

\* The fault of a pattern without the word boundary after the command.
MenuCmdOf_NoBoundary(m) ==
  IF /\ m # << >>
     /\ (LowerChar(m[1]) \in {"u", "p", "n", "b", "x", "s"} \/ IsDigit(m[1]))
     /\ ~Contains(Drop(m, 1), "\n")
  THEN [ok |-> TRUE, cmd |-> m[1], rest |-> Drop(m, 1)]
  ELSE [ok |-> FALSE, cmd |-> "", rest |-> << >>]

\* RE_MENU_CMD.match(msg), ^\s*([upnbx]|[0-9]|s)\b(.*)$ ignoring case: the
\* two groups when ok.
MenuCmdOf(m) ==
  IF /\ m # << >>
     /\ (LowerChar(m[1]) \in {"u", "p", "n", "b", "x", "s"} \/ IsDigit(m[1]))
     /\ (Len(m) = 1 \/ ~IsWordChar(m[2]))
     /\ ~Contains(Drop(m, 1), "\n")
  THEN [ok |-> TRUE, cmd |-> m[1], rest |-> Drop(m, 1)]
  ELSE [ok |-> FALSE, cmd |-> "", rest |-> << >>]

RE_MENU_CMD(msg) == MenuCmdOf(LStrip(msg))

\* _local_gopher_base_url with none of its environment variables set
local_gopher_base_url == <<"g","o","p","h","e","r",":","/","/","l","o","c","a","l","h","o","s","t",":","7","0","7","0","/","1">>

\* _resolve_local_gopher_alias: the URL, or << >> for None
AliasOf(token) ==
  IF token = << >> \/ ~StartsWith(Lower(token), <<"l","o","c","a","l">>) THEN << >>
  ELSE IF Lower(token) = <<"l","o","c","a","l">> THEN <<local_gopher_base_url>>
  ELSE IF StartsWith(Lower(token), <<"l","o","c","a","l","/">>)
  THEN <<local_gopher_base_url \o LStripSlash(Drop(token, 6))>>
  ELSE << >>

resolve_local_gopher_alias(raw) == AliasOf(Strip(raw))

\* What a command did: the session operation called (op, with its
\* arguments) and its result.  "help" is _send_help, which calls none.
Called(op, url, idx, terms, r) == [op |-> op, url |-> url, idx |-> idx, terms |-> terms, r |-> r]

send_help(session) == Called("help", << >>, 0, << >>, Result(session, Text("help", ""), << >>, FALSE, << >>))

\* The url command, with the alias resolved
OpenCmd(session, url, alias, env) ==
  IF alias # << >>
  THEN Called("open_url", alias[1], 0, << >>, open_url(session, alias[1], env))
  ELSE Called("open_url", url, 0, << >>, open_url(session, url, env))

\* The branch of on_receive for a match m_cmd of RE_MENU_CMD
MenuCmd(session, cmd, rest, env) ==
  IF cmd = "n" THEN Called("next_page", << >>, 0, << >>, next_page(session))
  ELSE IF cmd = "p" THEN Called("prev_page", << >>, 0, << >>, prev_page(session))
  ELSE IF cmd = "b" THEN Called("up", << >>, 0, << >>, up(session, env))
  ELSE IF cmd = "x" THEN Called("current_url", << >>, 0, << >>, current_url(session))
  ELSE IF cmd = "s" THEN Called("search", << >>, 0, rest, search(session, rest, env))
  ELSE IF IsDigit(cmd) THEN Called("select_index", << >>, DigitVal(cmd), << >>, select_index(session, DigitVal(cmd), env))
  ELSE send_help(session)

\* on_receive from msg = text.strip() on
Command(session, msg, m_url, m_cmd, env) ==
  IF msg = << >> THEN send_help(session)
  ELSE IF Lower(msg) \in {<<"h">>, <<"h","e","l","p">>} THEN send_help(session)
  ELSE IF m_url # << >> THEN OpenCmd(session, m_url[1], resolve_local_gopher_alias(m_url[1]), env)
  ELSE IF m_cmd.ok THEN MenuCmd(session, LowerChar(m_cmd.cmd), Strip(m_cmd.rest), env)
  ELSE send_help(session)

\* The fault of a new Session for every command.
get_session_AlwaysNew(smap, sender) == NewSession

\* App._get_session
get_session(smap, sender) == IF sender \in DOMAIN smap THEN smap[sender] ELSE NewSession

\* App._reply_dm: one ordered direct message to destination_id
reply_dm(destination_id, packet, text) ==
  [to |-> destination_id, channel |-> packet.channel, text |-> text, chunk_size |-> 200, retries |-> 0]

\* What on_receive leaves behind: the sessions, the replies sent and
\* whether an exception left the handler (escaped).
Handled(smap, sender, packet, c) ==
  [sessions |-> [s \in DOMAIN smap \cup {sender} |-> IF s = sender THEN c.r.sess ELSE smap[s]],
   sender |-> <<sender>>, text |-> extract_text(packet), c |-> c,
   replies |-> IF c.r.raised THEN << >> ELSE <<reply_dm(sender, packet, c.r.out)>>,
   escaped |-> c.r.raised]

Ignored(smap, packet) ==
  [sessions |-> smap, sender |-> sender_id(packet), text |-> extract_text(packet),
   c |-> Called("none", << >>, 0, << >>, Result(NewSession, NoText, << >>, FALSE, << >>)),
   replies |-> << >>, escaped |-> FALSE]

\* on_receive once the text and the sender are known
Receive(smap, packet, sender, msg, env) ==
  Handled(smap, sender, packet,
          Command(get_session(smap, sender), msg, RE_URL_CMD(msg), RE_MENU_CMD(msg), env))

\* App.on_receive
on_receive(smap, packet, env) ==
  IF extract_text(packet) = << >> \/ extract_text(packet) = <<<< >>>> THEN Ignored(smap, packet)
  ELSE IF sender_id(packet) = << >> THEN Ignored(smap, packet)
  ELSE Receive(smap, packet, sender_id(packet)[1], Strip(extract_text(packet)[1]), env)

(***************************************************************************)
(* What the callers of a session may pass, and the environments an         *)
(* operation may run in.                                                   *)
(***************************************************************************)
\* Whether the first and the second request of an operation succeed.
Envs == {<<TRUE, TRUE>>, <<TRUE, FALSE>>, <<FALSE, TRUE>>, <<FALSE, FALSE>>}

\* The strings open_url is called with: a menu on a port other than 70, the
\* root of a Gopher+ server (scheme in capitals, no port), a search
\* endpoint, a binary item, and a string of another scheme.
Urls ==
  { <<"g","o","p","h","e","r",":","/","/","h",":","7","0","7","0","/","1","/","a","/","b">>,
    <<"G","O","P","H","E","R",":","/","/","g">>,
    <<"g","o","p","h","e","r",":","/","/","h","/","7","/","q">>,
    <<"g","o","p","h","e","r",":","/","/","h","/","9","/","x">>,
    <<"h","t","t","p",":","/","/","h","/">> }

\* The indices select_index is called with: below the page, the first
\* rows, the last row of a full page, and beyond it.
Indices == {0 - 1, 0, 1, 2, 3, MENU_PAGE_SIZE - 1, MENU_PAGE_SIZE}

\* The terms search is called with.
Terms ==
  { << >>,
    <<" ">>,
    <<"d","u","n","e">>,
    <<"t","i","t","l","e","=","D","u","n","e"," ","a","u","t","h","o","r","=","H","e","r","b","e","r","t">>,
    <<"\"","x">>,
    <<"\"","\"">> }

(***************************************************************************)
(* The operations of one Session object, called directly.                  *)
(***************************************************************************)
\* The one session of the Session-level specification.
A == "!a"
Sess == sessions[A]

\* What the last operation was and did.
Last(op, url, idx, terms, r) ==
  [op |-> op, url |-> url, idx |-> idx, terms |-> terms,
   out |-> r.out, net |-> r.net, raised |-> r.raised, entry |-> r.entry]

NoLast == Last("none", << >>, 0, << >>, Result(NewSession, NoText, << >>, FALSE, << >>))

\* What the handling of the last packet did: no packet yet.
NoApp == [count |-> 0, sender |-> << >>, text |-> << >>, replies |-> << >>, escaped |-> FALSE]

\* No function is being called, nothing is being sent, and no packet waits.
NoCall == [fn |-> "none"]
NoSend == [status |-> "idle"]
NoMesh == [inbox |-> << >>]

Init ==
  /\ sessions = [s \in {A} |-> NewSession]
  /\ last = NoLast
  /\ app = NoApp
  /\ call = NoCall
  /\ send = NoSend
  /\ mesh = NoMesh

AllUp == <<TRUE, TRUE>>

\* The environments that matter to an operation: one is enough for an
\* operation that attempts no request (r0 is its result when every request
\* succeeds).
EnvsOf(r0) == IF r0.net = << >> THEN {AllUp} ELSE Envs

\* The caller of the session makes one call at a time: no result waits to
\* be taken.
Idle == last = NoLast

\* The session becomes r.sess and the caller holds what the call returned;
\* the history is driven no deeper than MaxHist.
Apply(sender, op, url, idx, terms, r) ==
  /\ Len(r.sess.history) <= MaxHist
  /\ sessions' = [sessions EXCEPT ![sender] = r.sess]
  /\ last' = Last(op, url, idx, terms, r)

OpenUrl ==
  /\ Idle
  /\ \E url \in Urls :
       \E r0 \in {open_url(Sess, url, AllUp)} : \E env \in EnvsOf(r0) :
       \E r \in {IF env = AllUp THEN r0 ELSE open_url(Sess, url, env)} :
         Apply(A, "open_url", url, 0, << >>, r)
  /\ UNCHANGED <<app, call, send, mesh>>

SelectIndex ==
  /\ Idle
  /\ \E idx \in Indices :
       \E r0 \in {select_index(Sess, idx, AllUp)} : \E env \in EnvsOf(r0) :
       \E r \in {IF env = AllUp THEN r0 ELSE select_index(Sess, idx, env)} :
         Apply(A, "select_index", << >>, idx, << >>, r)
  /\ UNCHANGED <<app, call, send, mesh>>

Search ==
  /\ Idle
  /\ \E terms \in Terms :
       \E r0 \in {search(Sess, terms, AllUp)} : \E env \in EnvsOf(r0) :
       \E r \in {IF env = AllUp THEN r0 ELSE search(Sess, terms, env)} :
         Apply(A, "search", << >>, 0, terms, r)
  /\ UNCHANGED <<app, call, send, mesh>>

Up ==
  /\ Idle
  /\ \E r0 \in {up(Sess, AllUp)} : \E env \in EnvsOf(r0) :
       \E r \in {IF env = AllUp THEN r0 ELSE up(Sess, env)} :
         Apply(A, "up", << >>, 0, << >>, r)
  /\ UNCHANGED <<app, call, send, mesh>>

NextPage ==
  /\ Idle
  /\ \E r \in {next_page(Sess)} : Apply(A, "next_page", << >>, 0, << >>, r)
  /\ UNCHANGED <<app, call, send, mesh>>

PrevPage ==
  /\ Idle
  /\ \E r \in {prev_page(Sess)} : Apply(A, "prev_page", << >>, 0, << >>, r)
  /\ UNCHANGED <<app, call, send, mesh>>

CurrentUrl ==
  /\ Idle
  /\ \E r \in {current_url(Sess)} : Apply(A, "current_url", << >>, 0, << >>, r)
  /\ UNCHANGED <<app, call, send, mesh>>

Render ==
  /\ Idle
  /\ \E r \in {Rendered(Sess, << >>, << >>)} : Apply(A, "render", << >>, 0, << >>, r)
  /\ UNCHANGED <<app, call, send, mesh>>

\* The caller takes what the call returned, or the exception it raised.
Return ==
  /\ ~Idle
  /\ last' = NoLast
  /\ UNCHANGED <<sessions, app, call, send, mesh>>

Next == OpenUrl \/ SelectIndex \/ Search \/ Up \/ NextPage \/ PrevPage \/ CurrentUrl \/ Render \/ Return

Spec == Init /\ [][Next]_vars

(***************************************************************************)
(* The application: direct messages arrive, App.on_receive handles each    *)
(* one to its end before the next (the radio library delivers them one at  *)
(* a time).                                                                *)
(***************************************************************************)
Senders == {"!a", "!b"}

\* The texts of the direct messages.
AppTexts ==
  { <<"u"," ","g","o","p","h","e","r",":","/","/","h",":","7","0","7","0","/","1","/","a","/","b">>,
    <<"U"," "," ","l","o","c","a","l","/">>,
    <<"0">>, <<"1">>, <<"n">>, <<"x">>, <<"b">>, <<"s"," ","d","u","n","e">>,
    <<"h","e","l","p">>, <<" ">>, <<"u">>, <<"h","e","l","l","o">> }

\* The packets: every text from every sender, a text under the top-level
\* key from a packet that names its sender under "sender", a packet of no
\* sender, a packet of no text and one of the empty text.
Packets ==
  { Packet(<<t>>, << >>, <<s>>, << >>, 0) : t \in AppTexts, s \in Senders }
    \cup { Packet(<< >>, <<<<"x">>>>, << >>, <<"!a">>, 1),
           Packet(<<<<"n">>>>, << >>, << >>, << >>, 0),
           Packet(<< >>, << >>, <<"!a">>, << >>, 0),
           Packet(<<<< >>>>, << >>, <<"!b">>, << >>, 0) }

AppInit ==
  /\ sessions = [s \in {} |-> NewSession]
  /\ last = NoLast
  /\ app = NoApp
  /\ call = NoCall
  /\ send = NoSend
  /\ mesh = NoMesh

OnReceive ==
  \E packet \in Packets :
    \E h0 \in {on_receive(sessions, packet, AllUp)} : \E env \in EnvsOf(h0.c.r) :
    \E h \in {IF env = AllUp THEN h0 ELSE on_receive(sessions, packet, env)} :
      /\ app.count < MaxPackets
      /\ \A s \in DOMAIN h.sessions : Len(h.sessions[s].history) <= MaxHist
      /\ sessions' = h.sessions
      /\ last' = Last(h.c.op, h.c.url, h.c.idx, h.c.terms, h.c.r)
      /\ app' = [count |-> app.count + 1, sender |-> h.sender, text |-> h.text, replies |-> h.replies, escaped |-> h.escaped]
      /\ UNCHANGED <<call, send, mesh>>

AppNext == OnReceive

AppSpec == AppInit /\ [][AppNext]_vars

(***************************************************************************)
(* meshie/chunker.py.  Positions are Python's: an index counts the         *)
(* characters before it, so text[a:b] is SubSeq(text, a + 1, b).           *)
(***************************************************************************)
\* The absolute ceiling of a direct message, in bytes (meshie/constants.py).
MAX_DM_BYTES == 200

IsBlank(c) == c \in {" ", "\t"}

\* _utf8_window: the loop, from idx with used bytes taken
RECURSIVE WindowEnd(_, _, _, _)
WindowEnd(text, idx, used, max_bytes) ==
  IF idx < Len(text) /\ used + Utf8CharLen(text[idx + 1]) <= max_bytes
  THEN WindowEnd(text, idx + 1, used + Utf8CharLen(text[idx + 1]), max_bytes)
  ELSE idx

\* The end of the window the loop stopped at: one character is taken when
\* the loop took none.
ForcedEnd(text, start, idx) == IF idx = start /\ idx < Len(text) THEN idx + 1 ELSE idx

\* The fault of a window that stops one byte short of the ceiling.
utf8_window_Short(text, start, max_bytes) ==
  ForcedEnd(text, start, WindowEnd(text, start, 1, max_bytes))

\* The fault of counting characters for bytes.
utf8_window_CountsChars(text, start, max_bytes) ==
  ForcedEnd(text, start, IF start + max_bytes > Len(text) THEN Len(text) ELSE start + max_bytes)

\* _utf8_window: the index the window text[start:idx] ends at
utf8_window(text, start, max_bytes) ==
  ForcedEnd(text, start, WindowEnd(text, start, 0, max_bytes))

\* _find_space_split: one past the last space or tab, 0 for None
RECURSIVE find_space_split(_, _)
find_space_split(window, pos) ==
  IF pos < 1 THEN 0 ELSE IF IsBlank(window[pos]) THEN pos ELSE find_space_split(window, pos - 1)

\* _find_split_index
find_split_index(window) ==
  IF RFind(window, "\n") > 1 THEN RFind(window, "\n")
  ELSE IF find_space_split(window, Len(window)) > 0 THEN find_space_split(window, Len(window))
  ELSE Len(window)

\* Whether s, not empty, matches (?:\r?\n[ \t]*)+ to its end.
RECURSIVE IsNewlineRun(_, _)
IsNewlineRun(s, i) ==
  LET j == IF s[i] = "\r" THEN i + 1 ELSE i
  IN /\ j <= Len(s)
     /\ s[j] = "\n"
     /\ \A k \in (j + 1)..Len(s) :
          (\A m \in (j + 1)..(k - 1) : IsBlank(s[m])) /\ ~IsBlank(s[k]) => IsNewlineRun(s, k)

\* re.sub(r"(?:\r?\n[ \t]*)+$", "", s): the leftmost match is removed.
RECURSIVE TrimTrailingNewlines(_, _)
TrimTrailingNewlines(s, i) ==
  IF i > Len(s) THEN s
  ELSE IF IsNewlineRun(s, i) THEN Take(s, i - 1)
  ELSE TrimTrailingNewlines(s, i + 1)

\* re.sub(r"^(?:[ \t]*\r?\n)+", "", s): the blank lines s starts with go.
RECURSIVE TrimLeadingBlankLines(_)
TrimLeadingBlankLines(s) ==
  LET b == LeadingBlank(s, 1)
      j == IF b < Len(s) /\ s[b + 1] = "\r" THEN b + 1 ELSE b
  IN IF j < Len(s) /\ s[j + 1] = "\n" THEN TrimLeadingBlankLines(Drop(s, j + 1)) ELSE s

\* _remove_trailing_blank_lines
remove_trailing_blank_lines(text, split_idx) ==
  IF split_idx <= 0 THEN split_idx
  ELSE IF TrimTrailingNewlines(Take(text, split_idx), 1) # << >>
  THEN Len(TrimTrailingNewlines(Take(text, split_idx), 1))
  ELSE split_idx

\* _avoid_short_last_line after without_newlines = slice_text.rstrip("\r\n")
AvoidShort(without_newlines, split_idx) ==
  IF without_newlines = << >> THEN split_idx
  ELSE IF RFind(without_newlines, "\n") = 0 THEN split_idx
  ELSE IF Len(Remove(Drop(without_newlines, RFind(without_newlines, "\n")), "\r")) < 5
  THEN RFind(without_newlines, "\n")
  ELSE split_idx

\* _avoid_short_last_line
avoid_short_last_line(text, split_idx) ==
  IF split_idx <= 0 THEN split_idx ELSE AvoidShort(RStripCRLF(Take(text, split_idx)), split_idx)

\* _adjust_split_for_blank_and_short
adjust_split_for_blank_and_short(window, split_idx) ==
  avoid_short_last_line(window, remove_trailing_blank_lines(window, split_idx))

\* _trim_chunk_edges
trim_chunk_edges(text) ==
  IF text = << >> THEN << >>
  ELSE StripCR(TrimTrailingNewlines(TrimLeadingBlankLines(text), 1))

\* max(1, min(split_idx, len(window)))
ClampSplit(split_idx, n) == IF split_idx > n THEN (IF n < 1 THEN 1 ELSE n) ELSE IF split_idx < 1 THEN 1 ELSE split_idx

\* The number of characters of the window that go into the chunk: all of
\* the window that reaches the end of the payload, else up to the split.
SplitOf(payload, idx, window_end) ==
  IF window_end >= Len(payload) THEN window_end - idx
  ELSE ClampSplit(adjust_split_for_blank_and_short(SubSeq(payload, idx + 1, window_end),
                                                   find_split_index(SubSeq(payload, idx + 1, window_end))),
                  window_end - idx)

\* chunks after "if cleaned: chunks.append(cleaned)"
Cleaned(chunks, cleaned) == IF cleaned # << >> THEN Append(chunks, cleaned) ELSE chunks

\* The fault of stepping over the character at the split.
ChunkStep_SkipsOne(payload, idx, n, chunks) ==
  [idx |-> idx + n + 1, chunks |-> Cleaned(chunks, trim_chunk_edges(SubSeq(payload, idx + 1, idx + n)))]

\* One turn of the loop of chunk_message_smart, which cuts n characters.
ChunkStep(payload, idx, n, chunks) ==
  [idx |-> idx + n, chunks |-> Cleaned(chunks, trim_chunk_edges(SubSeq(payload, idx + 1, idx + n)))]

\* The loop of chunk_message_smart.  A window is never empty while
\* idx < length, so the branch "if not window" is never taken.
RECURSIVE ChunkLoop(_, _, _)
ChunkLoop(payload, max_bytes, st) ==
  IF st.idx >= Len(payload) THEN st.chunks
  ELSE ChunkLoop(payload, max_bytes,
                 ChunkStep(payload, st.idx,
                           SplitOf(payload, st.idx, utf8_window(payload, st.idx, max_bytes)), st.chunks))

\* max_bytes = max(1, min(chunk_size, MAX_DM_BYTES))
MaxBytes(chunk_size) ==
  IF chunk_size > MAX_DM_BYTES THEN MAX_DM_BYTES ELSE IF chunk_size < 1 THEN 1 ELSE chunk_size

\* chunks or [""]
OrEmptyChunk(chunks) == IF chunks = << >> THEN << << >> >> ELSE chunks

\* chunk_message_smart
chunk_message_smart(message, chunk_size) ==
  IF message = << >> THEN << << >> >>
  ELSE OrEmptyChunk(ChunkLoop(message, MaxBytes(chunk_size), [idx |-> 0, chunks |-> << >>]))

(***************************************************************************)
(* chunk_message_smart, called with every short message over ChunkChars    *)
(* and with some longer ones, at every ceiling.                            *)
(***************************************************************************)
\* The characters of the short messages: a letter, a space, the line ends,
\* and characters of two and three bytes.
ChunkChars == {"a", " ", "\n", "\r", "U+00E9", "U+20AC"}

\* Longer messages: lines of words, blank lines between paragraphs, a last
\* line of fewer than five characters, tabs, and carriage returns.
LongMessages ==
  { <<"h","e","l","l","o"," ","w","o","r","l","d","\n","a","b"," ","c","d">>,
    <<"h","e","l","l","o","\n","\n","\n","w","o","r","l","d"," ","w","i","d","e">>,
    <<"o","n","e"," ","t","w","o","\r","\n","t","h","r","e","e","\r","\n","\r","\n","f","o","u","r">>,
    <<"a","b","c","d","e","f","g","h","i","j","k","l","m","n","o","p">>,
    <<"a","b","\t","c","d","\t","e","f"," ","g","h","\n"," ","\n"," "," ","i","j">>,
    <<"U+1F600","U+1F600","a"," ","U+00E9","U+00E9","U+00E9","\n","U+20AC","U+20AC","b","c","d","e","f">> }

Messages == UNION {[1..n -> ChunkChars] : n \in 0..MaxMsgLen} \cup LongMessages

ChunkSizes == (1..MaxChunkSize) \cup {WideChunkSize}

ChunkInit ==
  /\ sessions = [s \in {} |-> NewSession]
  /\ last = NoLast
  /\ app = NoApp
  /\ call \in [fn : {"chunk_message_smart"}, message : Messages, chunk_size : ChunkSizes,
               chunks : {<< >>}, done : {FALSE}]
  /\ send = NoSend
  /\ mesh = NoMesh

Chunk ==
  /\ call.fn = "chunk_message_smart"
  /\ ~call.done
  /\ call' = [call EXCEPT !.chunks = chunk_message_smart(call.message, call.chunk_size), !.done = TRUE]
  /\ UNCHANGED <<sessions, last, app, send, mesh>>

ChunkNext == Chunk

ChunkSpec == ChunkInit /\ [][ChunkNext]_vars

(***************************************************************************)
(* meshie/client.py: Meshie.send_direct_message_ordered.  A step is one    *)
(* call of interface.sendText, with the sleep or the raise that follows    *)
(* it; log is what the transport was handed, call by call.                 *)
(***************************************************************************)
\* chunks = chunk_message_smart(message, chunk_size), before the first chunk
Sending(destination_id, message, chunk_size, retries) ==
  [status |-> "sending", to |-> destination_id, message |-> message, chunk_size |-> chunk_size,
   retries |-> retries, chunks |-> chunk_message_smart(message, chunk_size),
   idx |-> 1, attempt |-> 0, log |-> << >>]

\* The call of sendText for the chunk idx: attempt += 1
Handed(s, ok) ==
  [s EXCEPT !.attempt = @ + 1, !.log = Append(@, [to |-> s.to, text |-> s.chunks[s.idx], ok |-> ok])]

\* sendText returned: sleep, break, and the next chunk if there is one
SentOk(s) ==
  IF s.idx = Len(s.chunks) THEN [s EXCEPT !.status = "done"]
  ELSE [s EXCEPT !.idx = @ + 1, !.attempt = 0]

\* The fault of allowing one attempt more than retries + 1.
GivesUp_OneLate(attempt, retries) == attempt > retries + 1

\* if attempt > retries
GivesUp(attempt, retries) == attempt > retries

\* The fault of going on to the next chunk after a failure.
SentFailed_MovesOn(s) ==
  IF GivesUp(s.attempt, s.retries) THEN SentOk(s) ELSE s

\* sendText raised: raise after the last attempt, else sleep and try again
SentFailed(s) ==
  IF GivesUp(s.attempt, s.retries) THEN [s EXCEPT !.status = "failed"] ELSE s

\* The messages sent: of one, two and three chunks at the ceiling
\* MaxChunkSize, and the empty message.
SendMessages ==
  { << >>, <<"a","b">>, <<"a","b"," ","c","d"," ","e","f"," ","g","h">>, <<"a","b","c","d","e","f","g","h","i">>, <<"a","b"," ","c","d","\n","\n","e","f"," ","g","h"," ","i","j"," ","k","l">> }

SendInit ==
  /\ sessions = [s \in {} |-> NewSession]
  /\ last = NoLast
  /\ app = NoApp
  /\ call = NoCall
  /\ send = NoSend
  /\ mesh = NoMesh

StartSend ==
  /\ send.status = "idle"
  /\ \E message \in SendMessages, retries \in 0..MaxRetries :
       send' = Sending("!a", message, MaxChunkSize, retries)
  /\ UNCHANGED <<sessions, last, app, call, mesh>>

SendTextReturns ==
  /\ send.status = "sending"
  /\ send' = SentOk(Handed(send, TRUE))
  /\ UNCHANGED <<sessions, last, app, call, mesh>>

SendTextRaises ==
  /\ send.status = "sending"
  /\ send' = SentFailed(Handed(send, FALSE))
  /\ UNCHANGED <<sessions, last, app, call, mesh>>

SendNext == StartSend \/ SendTextReturns \/ SendTextRaises

\* Every call of sendText comes to an end, and so does every sleep: the
\* loop goes on until it is left.
SendSpec == SendInit /\ [][SendNext]_vars /\ WF_vars(SendTextReturns \/ SendTextRaises)

(***************************************************************************)
(* meshie/client.py: Meshie._on_receive_text calls the direct-message      *)
(* callbacks, App.on_receive among them, in the thread that delivers the   *)
(* packet, and returns when they have returned.  No thread is started for  *)
(* a packet or for a fetch: a packet that arrives while on_receive waits   *)
(* for a Gopher server in _recv_all_lines waits in mesh.inbox.  mesh.busy  *)
(* is the packet whose handling waits for its server.                      *)
(***************************************************************************)
Waiting(inbox, busy, replies, arrived) ==
  [inbox |-> inbox, busy |-> busy, replies |-> replies, arrived |-> arrived]

\* The direct messages that arrive: a menu is opened by two identities,
\* one asks for its parent menu, the other for its URL.
MeshPackets ==
  { Packet(<<t>>, << >>, <<s>>, << >>, 0) :
      t \in { <<"u"," ","g","o","p","h","e","r",":","/","/","h",":","7","0","7","0","/","1","/","a","/","b">>, <<"x">>, <<"b">> }, s \in Senders }

MeshInit ==
  /\ sessions = [s \in {} |-> NewSession]
  /\ last = NoLast
  /\ app = NoApp
  /\ call = NoCall
  /\ send = NoSend
  /\ mesh = Waiting(<< >>, << >>, << >>, 0)

\* The radio has a direct message for this node.
Arrive ==
  /\ mesh.arrived < MaxPackets
  /\ \E packet \in MeshPackets :
       mesh' = [mesh EXCEPT !.inbox = Append(@, packet), !.arrived = @ + 1]
  /\ UNCHANGED <<sessions, last, app, call, send>>

\* on_receive has come to its end, by return or by an exception that
\* _on_receive_text catches.
Finish(h) ==
  /\ sessions' = h.sessions
  /\ mesh' = [mesh EXCEPT !.inbox = IF mesh.busy = << >> THEN Tail(@) ELSE @,
                          !.busy = << >>, !.replies = @ \o h.replies]

\* _on_receive_text: cb(packet, interface) for the next packet.  A command
\* that asks no server is handled to its end; one that does waits for it.
Dispatch ==
  /\ mesh.busy = << >>
  /\ mesh.inbox # << >>
  /\ \E h \in {on_receive(sessions, Head(mesh.inbox), AllUp)} :
       IF h.c.r.net = << >> THEN Finish(h)
       ELSE /\ mesh' = [mesh EXCEPT !.inbox = Tail(@), !.busy = <<Head(mesh.inbox)>>]
            /\ UNCHANGED sessions
  /\ UNCHANGED <<last, app, call, send>>

\* The server has answered, refused or timed out, and on_receive goes on to
\* its end.
FetchEnds ==
  /\ mesh.busy # << >>
  /\ \E env \in Envs : Finish(on_receive(sessions, mesh.busy[1], env))
  /\ UNCHANGED <<last, app, call, send>>

MeshNext == Arrive \/ Dispatch \/ FetchEnds

MeshSpec == MeshInit /\ [][MeshNext]_vars

(***************************************************************************)
(* parse_gopher_url and the URL text of Session.current_url, called on     *)
(* strings put together from a scheme, a host, a port and a path.          *)
(***************************************************************************)
UrlSchemes == { <<"g","o","p","h","e","r",":","/","/">>, <<"G","O","P","H","E","R",":","/","/">>, <<"G","o","p","h","e","r",":","/","/">>, <<"h","t","t","p",":","/","/">> }
UrlHosts == { <<"h">>, <<"H",".","x">>, << >> }
UrlPorts == { << >>, <<":","7","0">>, <<":","7","0","7","0">>, <<":","0","7","0">>, <<":","+","7">>, <<":"," ","8"," ">>, <<":","-","1">>, <<":","x">>, <<":">> }
UrlPaths ==
  { << >>, <<"/">>, <<"/","1">>, <<"/","1","/","a","/","b">>, <<"/","0","/","f",".","t","x","t">>, <<"/","7","/","q">>, <<"/","x","/","y">>,
    <<"/","/","a">>, <<"/","I","/","p","i","c">>, <<"/","9">>, <<"/","T","/","w","\t","+">> }

UrlStrings == {s \o h \o p \o q : s \in UrlSchemes, h \in UrlHosts, p \in UrlPorts, q \in UrlPaths}

UrlInit ==
  /\ sessions = [s \in {} |-> NewSession]
  /\ last = NoLast
  /\ app = NoApp
  /\ call \in [fn : {"parse_gopher_url"}, url : UrlStrings, step : {"given"},
               parsed : {<< >>}, text : {<< >>}, reparsed : {<< >>}]
  /\ send = NoSend
  /\ mesh = NoMesh

\* gurl = parse_gopher_url(url_str), which raises ValueError or returns
ParseUrl ==
  /\ call.fn = "parse_gopher_url"
  /\ call.step = "given"
  /\ \E p \in {parse_gopher_url(call.url)} :
       call' = IF p.ok THEN [call EXCEPT !.step = "parsed", !.parsed = <<p.url>>]
               ELSE [call EXCEPT !.step = "raised"]
  /\ UNCHANGED <<sessions, last, app, send, mesh>>

\* url_str = f"gopher://{url.host}:{url.port}/{url.type}{selector}"
FormatUrl ==
  /\ call.fn = "parse_gopher_url"
  /\ call.step = "parsed"
  /\ call' = [call EXCEPT !.step = "formatted", !.text = <<UrlText(call.parsed[1])>>]
  /\ UNCHANGED <<sessions, last, app, send, mesh>>

\* parse_gopher_url(url_str) of the text of current_url
ReparseUrl ==
  /\ call.fn = "parse_gopher_url"
  /\ call.step = "formatted"
  /\ call' = [call EXCEPT !.step = "reparsed", !.reparsed = <<parse_gopher_url(call.text[1])>>]
  /\ UNCHANGED <<sessions, last, app, send, mesh>>

UrlNext == ParseUrl \/ FormatUrl \/ ReparseUrl

UrlSpec == UrlInit /\ [][UrlNext]_vars

(***************************************************************************)
(* Session._build_search_query, called the way Session.search calls it:    *)
(* with the pending endpoint and terms that are not blank.                 *)
(***************************************************************************)
\* The most tokens the terms are put together from.
MaxTokens == 3

\* The tokens as typed: words, a quoted value with a space, an empty quoted
\* value, named values whose keys differ in case, two values under the key
\* title, a key no field declares, and a value with a "=" in it.
QueryTokens ==
  { <<"d">>, <<"\"","a"," ","b","\"">>, <<"\"","\"">>, <<"t","i","t","l","e","=","D">>, <<"a","u","t","h","o","r","=","H">>,
    <<"T","I","T","L","E","=","x">>, <<"y","r","=","9">>, <<"k","=","v","=","w">> }

\* The input of two named values given against the order of the fields.
QueryExample == <<<<"t","i","t","l","e","=","D","u","n","e">>, <<"a","u","t","h","o","r","=","H","e","r","b","e","r","t">>>>

\* The attribute blocks of the endpoints: none, the fields author and title
\* under each of the three keys, a padded name in capitals, three fields, a
\* field declared twice, a block of blank lines only, and no field block.
QueryAttributes ==
  { << >>,
    <<[k \in {KeyFIELDS} |-> <<<<"a","u","t","h","o","r">>, <<"t","i","t","l","e">>>>]>>,
    <<[k \in {KeyFIELD} |-> <<<<" ","T","i","t","l","e"," ">>>>]>>,
    <<[k \in {KeySEARCHFIELDS} |-> <<<<"a","u","t","h","o","r">>, <<"t","i","t","l","e">>, <<"y","r">>>>]>>,
    <<[k \in {KeyFIELDS} |-> <<<<"t","i","t","l","e">>, <<"t","i","t","l","e">>>>]>>,
    <<[k \in {KeyFIELDS} |-> <<<<" ">>, << >>>>]>>,
    <<[k \in {KeyPROMPT} |-> <<<<"E","n","t","e","r"," ","t","e","r","m","s">>>>]>> }

QueryEndpoint(attributes) == MenuEntry("7", <<"F","i","n","d">>, <<"/","q">>, <<"g">>, 7070, attributes)

QueryInit ==
  /\ sessions = [s \in {} |-> NewSession]
  /\ last = NoLast
  /\ app = NoApp
  /\ call \in [fn : {"build_search_query"},
               endpoint : {QueryEndpoint(a) : a \in QueryAttributes},
               typed : UNION {[1..n -> QueryTokens] : n \in 1..MaxTokens} \cup {QueryExample},
               done : {FALSE}, query : {<< >>}]
  /\ send = NoSend
  /\ mesh = NoMesh

\* payload_query = self._build_search_query(endpoint, terms), the terms
\* being the typed tokens with one space between them
BuildQuery ==
  /\ call.fn = "build_search_query"
  /\ ~call.done
  /\ \E b \in {build_search_query(call.endpoint, Join(call.typed, <<" ">>))} :
       /\ b.ok
       /\ call' = [call EXCEPT !.done = TRUE, !.query = b.query]
  /\ UNCHANGED <<sessions, last, app, send, mesh>>

QueryNext == BuildQuery

QuerySpec == QueryInit /\ [][QueryNext]_vars

(***************************************************************************)
(* The two menu decoders, called on the lines of a response.  The lines    *)
(* are what str.splitlines gave: none holds a line end.  parse_menu is one *)
(* step; parse_menu_plus goes line by line, st being the state of its      *)
(* loop and pos the number of lines it has taken.                          *)
(***************************************************************************)
\* The most lines of a response put together from the kinds of lines.
MaxLines == 4

\* The lines of a classic listing: a full line, a line of no host and no
\* port, an information line of a display only, a port that is no number,
\* a padded port with a fifth field after it, the terminator (bare and
\* padded), and the empty line.
ClassicLines ==
  { <<"1","A","\t","/","a","\t","g","\t","7","0">>, <<"0","B","\t","/","b">>, <<"i","I","n","f","o">>, <<"1","C","\t","/","c","\t","g","\t","x">>,
    <<"9","D","\t","/","d","\t","g","\t"," ","7","1"," ","\t","+">>, <<".">>, <<" ","."," ">>, << >> }

\* The lines of an extended listing: entries (full, short, and +INFO: with
\* nothing after it), a label in two spellings, a line of text, the
\* terminator, and the empty line.
PlusLines ==
  { <<"+","I","N","F","O",":","1","A","\t","/","a","\t","g","\t","7","0">>, <<"+","I","N","F","O",":","7","F","\t","/","q">>, <<"+","I","N","F","O",":">>, <<"+","A","D","M","I","N",":">>, <<"+","A","d","m","i","n",":">>,
    <<"x">>, <<".">>, << >> }

\* Longer extended listings: two labels on one entry and a second entry, a
\* block cut by the empty label "+:", a label with its value on the line,
\* a padded terminator inside a block, and an open block at the terminator
\* with lines after it.
LongPlusMenus ==
  { PlusMenu,
    <<<<"+","I","N","F","O",":","1","A","\t","/","a","\t","g","\t","7","0">>, <<"+","A","D","M","I","N",":">>, <<"x">>, <<"+","A","B","S","T","R","A","C","T",":">>, <<" ","y"," ">>, <<"z">>, <<"+","I","N","F","O",":","0","B","\t","/","b">>, <<"+","A","D","M","I","N",":">>, <<"w">>, <<".">>>>,
    <<<<"+","A","D","M","I","N",":">>, <<"x">>, <<"+","I","N","F","O",":","1","A","\t","/","a">>, <<"+","A","D","M","I","N",":">>, <<"y">>, <<"+",":">>, <<"z">>, <<"+","A","D","M","I","N",":">>, <<"w">>, <<".">>>>,
    <<<<"+","I","N","F","O",":","1","A","\t","/","a">>, <<"+","A","D","M","I","N",":"," ","x">>, <<"+","V","I","E","W","S",":">>, <<"+","A","D","M","I","N",":"," ","y">>, <<" ","."," ">>, <<"+","I","N","F","O">>, <<".">>>>,
    <<<<"+","I","N","F","O",":","1","A","\t","/","a">>, <<"+","A","D","M","I","N",":">>, <<"x">>, <<".">>, <<"y">>, <<"+","A","D","M","I","N",":">>, <<"z">>, <<"+","I","N","F","O",":","0","B","\t","/","b">>, <<".">>, <<"+","I","N","F","O",":","0","C","\t","/","c">>>> }

MenuCall(fn, lines) ==
  [fn |-> fn, lines |-> lines, pos |-> 0, st |-> PlusInit, returned |-> FALSE, entries |-> << >>]

MenuInit ==
  /\ sessions = [s \in {} |-> NewSession]
  /\ last = NoLast
  /\ app = NoApp
  /\ call \in {MenuCall("parse_menu", lines) :
                 lines \in UNION {[1..n -> ClassicLines] : n \in 0..MaxLines} \cup {SmallMenu, BigMenu}}
           \cup {MenuCall("parse_menu_plus", lines) :
                 lines \in UNION {[1..n -> PlusLines] : n \in 0..MaxLines} \cup LongPlusMenus}
  /\ send = NoSend
  /\ mesh = NoMesh

\* parse_menu(lines)
ParseMenu ==
  /\ call.fn = "parse_menu"
  /\ ~call.returned
  /\ call' = [call EXCEPT !.returned = TRUE, !.entries = parse_menu(call.lines)]
  /\ UNCHANGED <<sessions, last, app, send, mesh>>

\* One turn of the loop of parse_menu_plus: the next line.
PlusLine ==
  /\ call.fn = "parse_menu_plus"
  /\ ~call.returned
  /\ call.pos < Len(call.lines)
  /\ ~call.st.done
  /\ call' = [call EXCEPT !.pos = call.pos + 1, !.st = PlusStep(call.st, call.lines[call.pos + 1])]
  /\ UNCHANGED <<sessions, last, app, send, mesh>>

\* The loop of parse_menu_plus is left, by break or at the last line: the
\* flush after the loop, and return entries.
PlusReturn ==
  /\ call.fn = "parse_menu_plus"
  /\ ~call.returned
  /\ call.pos = Len(call.lines) \/ call.st.done
  /\ \E st \in {IF AttrOpen(call.st) THEN flush_attr(call.st) ELSE call.st} :
       call' = [call EXCEPT !.returned = TRUE, !.st = st, !.entries = st.entries]
  /\ UNCHANGED <<sessions, last, app, send, mesh>>

MenuNext == ParseMenu \/ PlusLine \/ PlusReturn

MenuSpec == MenuInit /\ [][MenuNext]_vars

(***************************************************************************)
(* GopherClient.fetch and GopherClient.search, called on descriptors of    *)
(* every kind of item type and on search endpoints, in every environment.  *)
(***************************************************************************)
FetchTypes == {"1", "0", "7", "t", "T", "9", "I", "h", "+"}
FetchSelectors == { << >>, <<"/","a","/","b">>, <<"/","f">>, <<"/","e">>, <<"/","p">>, <<"/","n">>, <<"/","x">> }
FetchHosts == { <<"h">>, <<"g">> }
FetchQueries == { << >>, <<"d","u","n","e">>, <<"H","e","r","b","e","r","t","\t","D","u","n","e">> }

FetchInit ==
  /\ sessions = [s \in {} |-> NewSession]
  /\ last = NoLast
  /\ app = NoApp
  /\ call \in [fn : {"fetch"},
               url : {GopherURL(h, 7070, t, sel) : h \in FetchHosts, t \in FetchTypes, sel \in FetchSelectors},
               query_payload : {<< >>}, env : Envs, done : {FALSE},
               r : {FetchResult(FALSE, "", NoPayload, << >>)}]
           \cup
           [fn : {"search"},
            url : {GopherURL(h, 7070, "7", sel) : h \in FetchHosts, sel \in {<<"/","q">>, <<"/","p">>}},
            query_payload : FetchQueries, env : Envs, done : {FALSE},
            r : {FetchResult(FALSE, "", NoPayload, << >>)}]
  /\ send = NoSend
  /\ mesh = NoMesh

\* view_kind, payload = self.client.fetch(gurl), or the exception it raises
Fetch ==
  /\ call.fn = "fetch"
  /\ ~call.done
  /\ call' = [call EXCEPT !.done = TRUE, !.r = fetch(call.url, call.env)]
  /\ UNCHANGED <<sessions, last, app, send, mesh>>

\* view_kind, payload = self.client.search(endpoint, payload_query), the
\* endpoint being the entry fetch makes of the descriptor of a search item
ClientSearch ==
  /\ call.fn = "search"
  /\ ~call.done
  /\ call' = [call EXCEPT !.done = TRUE,
                !.r = client_search(fetch(call.url, call.env).payload.endpoint[1],
                                    call.query_payload, call.env)]
  /\ UNCHANGED <<sessions, last, app, send, mesh>>

FetchNext == Fetch \/ ClientSearch

FetchSpec == FetchInit /\ [][FetchNext]_vars

(***************************************************************************)
(* The command surface: App.on_receive on the direct messages of one       *)
(* identity, over every form of command line.                              *)
(***************************************************************************)
\* The most command lines the identity sends.
MaxCmds == 3

\* The command lines: every command in both cases, with and without what
\* follows it, numbers of one and of two digits, a letter that is no
\* command, words that begin with a command letter, and a message of two
\* lines.
CmdTexts ==
  { <<"u"," ","g","o","p","h","e","r",":","/","/","h",":","7","0","7","0","/","1","/","a","/","b">>, <<"U"," "," ","l","o","c","a","l","/">>, <<"u">>, <<"u"," ","a"," ","b">>,
    <<"n">>, <<"N">>, <<"p">>, <<"b">>, <<"B">>, <<"x">>, <<"s"," ","d","u","n","e">>, <<"S">>,
    <<"0">>, <<"9">>, <<"1","2">>, <<"5"," ","f","o","o">>, <<"n"," ","f","o","o">>, <<"n",".">>, <<"7","x">>,
    <<"h">>, <<"H","E","L","P">>, <<"h","e","l","p"," ","m","e">>, <<" ">>, <<"h","e","l","l","o">>, <<"?">>, <<"n","\n","x">> }

\* on_receive(packet, interface) for a direct message of identity !a
OnCommand ==
  \E text \in CmdTexts :
    \E h0 \in {on_receive(sessions, Packet(<<text>>, << >>, <<"!a">>, << >>, 0), AllUp)} :
    \E env \in EnvsOf(h0.c.r) :
    \E h \in {IF env = AllUp THEN h0
              ELSE on_receive(sessions, Packet(<<text>>, << >>, <<"!a">>, << >>, 0), env)} :
      /\ app.count < MaxCmds
      /\ sessions' = h.sessions
      /\ last' = Last(h.c.op, h.c.url, h.c.idx, h.c.terms, h.c.r)
      /\ app' = [count |-> app.count + 1, sender |-> h.sender, text |-> h.text, replies |-> h.replies, escaped |-> h.escaped]
      /\ UNCHANGED <<call, send, mesh>>

CmdNext == OnCommand

CmdSpec == AppInit /\ [][CmdNext]_vars

(***************************************************************************)
(* The loop of chunk_message_smart, turn by turn: idx is the read          *)
(* position, turns the number of turns taken.                              *)
(***************************************************************************)
\* The longest of the short messages the loop is run on.
MaxLoopLen == 3

LoopMessages == UNION {[1..n -> ChunkChars] : n \in 0..MaxLoopLen} \cup LongMessages

LoopInit ==
  /\ sessions = [s \in {} |-> NewSession]
  /\ last = NoLast
  /\ app = NoApp
  /\ call = NoCall
  /\ send = NoSend
  /\ mesh = NoMesh

\* chunk_message_smart(message, chunk_size) is called: idx = 0, chunks = []
LoopStart ==
  /\ call = NoCall
  /\ \E message \in LoopMessages, chunk_size \in ChunkSizes :
       call' = [fn |-> "chunk_message_smart", message |-> message, chunk_size |-> chunk_size,
                idx |-> 0, turns |-> 0, chunks |-> << >>, done |-> FALSE]
  /\ UNCHANGED <<sessions, last, app, send, mesh>>

\* The window of a turn ends where _utf8_window ends it, and one character
\* on when that window is empty ("if not window").
LoopWindowEnd(payload, idx, window_end) ==
  IF window_end = idx THEN (IF idx + 1 > Len(payload) THEN Len(payload) ELSE idx + 1) ELSE window_end

\* The fault of "idx = split_idx" for "idx += split_idx".
NextIdx_NotAdded(idx, window_end, split_idx, length) ==
  IF window_end >= length THEN window_end ELSE split_idx

\* The read position after a turn: idx = window_end for the window that
\* reaches the end of the payload, idx += split_idx for any other.
NextIdx(idx, window_end, split_idx, length) ==
  IF window_end >= length THEN window_end ELSE idx + split_idx

\* One turn of "while idx < length", statement by statement: the window,
\* the split found in it and adjusted, the chunk cut and cleaned.  The
\* count of turns stops one past the length of the message.
LoopTurn ==
  /\ call.fn = "chunk_message_smart"
  /\ ~call.done
  /\ call.idx < Len(call.message)
  /\ call.turns <= Len(call.message)
  /\ \E window_end \in {LoopWindowEnd(call.message, call.idx,
                                      utf8_window(call.message, call.idx, MaxBytes(call.chunk_size)))} :
     \E window \in {SubSeq(call.message, call.idx + 1, window_end)} :
     \E found \in {IF window_end >= Len(call.message) THEN Len(window) ELSE find_split_index(window)} :
     \E kept \in {IF window_end >= Len(call.message) THEN found
                  ELSE remove_trailing_blank_lines(window, found)} :
     \E split_idx \in {IF window_end >= Len(call.message) THEN kept
                       ELSE ClampSplit(avoid_short_last_line(window, kept), Len(window))} :
     \E led \in {TrimLeadingBlankLines(Take(window, split_idx))} :
     \E trimmed \in {TrimTrailingNewlines(led, 1)} :
     \E cleaned \in {StripCR(trimmed)} :
       call' = [call EXCEPT !.idx = NextIdx(call.idx, window_end, split_idx, Len(call.message)),
                            !.chunks = Cleaned(call.chunks, cleaned),
                            !.turns = call.turns + 1]
  /\ UNCHANGED <<sessions, last, app, send, mesh>>

\* return [""] for the empty message, return chunks or [""] after the loop
LoopReturn ==
  /\ call.fn = "chunk_message_smart"
  /\ ~call.done
  /\ call.idx >= Len(call.message)
  /\ call' = [call EXCEPT !.chunks = OrEmptyChunk(call.chunks), !.done = TRUE]
  /\ UNCHANGED <<sessions, last, app, send, mesh>>

LoopNext == LoopStart \/ LoopTurn \/ LoopReturn

\* The function, once called, runs on: a turn that can be taken is taken.
LoopSpec == LoopInit /\ [][LoopNext]_vars /\ WF_vars(LoopTurn \/ LoopReturn)

(***************************************************************************)
(* Properties.  An action property reads the session before the step       *)
(* (Sess), the session after it (After), and what the step did (last').    *)
(***************************************************************************)
After == sessions'[A]

Fresh == After.current \notin DOMAIN Sess.views

\* Every view the session held before the step is still what it was.
OldViewsKept == \A r \in DOMAIN After.views \cap DOMAIN Sess.views : After.views[r] = Sess.views[r]

\* The step pushed exactly one new view, which is current.
PushedOne ==
  /\ Fresh
  /\ After.history = Append(Sess.history, After.current)
  /\ OldViewsKept

IsSelectable(e) == e.type # "i"

\* The selectable entries S of a menu view, and the number of items a view pages over.
SelectableOf(vs) == SelectSeq(vs.payload.entries, IsSelectable)

Max1(n) == IF n < 1 THEN 1 ELSE n
Min(a, b) == IF a < b THEN a ELSE b

\* The last request of the step failed: a connection error or a timeout.
FetchFailed(l) == l.net # << >> /\ ~l.net[Len(l.net)].ok

Fetching == {"open_url", "select_index", "search", "up"}

\* C1: in every reachable state of the session, current is absent and the
\* history is empty, or current is a search-prompt view that is not in the
\* history, or current is the very view at the top of the history.
C1_CurrentIsTop ==
  \/ Sess.current = 0 /\ Sess.history = << >>
  \/ /\ Sess.current # 0
     /\ Cur(Sess).view_kind = "search"
     /\ \A i \in 1..Len(Sess.history) : Sess.history[i] # Sess.current
  \/ Sess.history # << >> /\ Sess.current = Sess.history[Len(Sess.history)]

\* C1: open has made a search prompt current over a history of more than
\* one view.
C1_Witness ==
  /\ Sess.current # 0
  /\ Cur(Sess).view_kind = "search"
  /\ Len(Sess.history) > 1
  /\ last.op = "open_url"

\* C2 as the specification states it: whenever the fetch inside open,
\* selectIndex, search or back fails, the session (history, current, and
\* every view's offsets and pending endpoint) is what it was before.
C2_FailedFetchChangesNothing ==
  [][last'.op \in Fetching /\ FetchFailed(last') => sessions' = sessions]_vars

\* C2, corrected: whenever the fetch inside open, selectIndex, search or back
\* raises, which is what a failed menu or file request does, the session is
\* what it was before; a failed request for an item of any other type raises
\* nothing, and the operation installs a Binary view of payload
\* (0, "Error fetching: ...") as it installs a fetched view.
C2_RaisedFetchChangesNothing ==
  [][last'.op \in Fetching /\ FetchFailed(last') =>
       IF last'.raised THEN sessions' = sessions
       ELSE /\ Fresh
            /\ Cur(After).view_kind = "binary"
            /\ Cur(After).payload.blen = 0
            /\ Cur(After).payload.note = "Error fetching: "
            /\ LowerChar(Cur(After).url.type) \notin {"0", "1", "7", "t"}]_vars

\* C2: a selection on the second page of a menu has failed in its fetch.
C2_Witness ==
  /\ last.op = "select_index"
  /\ last.raised
  /\ FetchFailed(last)
  /\ Cur(Sess).menu_offset = MENU_PAGE_SIZE

\* C3 as the specification states it: the handling of a packet that has a
\* sender and a non-empty text ends with exactly one reply, sent to that
\* sender, and with no exception leaving the handler.
C3_OneReplyPerCommand ==
  app.sender # << >> /\ app.text # << >> /\ app.text # <<<< >>>> =>
    /\ Len(app.replies) = 1
    /\ app.replies[1].to = app.sender[1]
    /\ ~app.escaped

\* C3: the menu fetch of a command has failed.
C3_Witness ==
  /\ app.sender # << >>
  /\ last.op = "open_url"
  /\ FetchFailed(last)
  /\ last.net[1].req.selector = <<"/","a","/","b">>

\* The items a view pages over.
ItemCount(vs) ==
  IF vs.view_kind = "menu" THEN Len(SelectableOf(vs))
  ELSE IF vs.view_kind = "file" THEN Len(vs.payload.lines)
  ELSE 0

OffsetsInRange(sess) ==
  \A r \in DOMAIN sess.views :
    /\ sess.views[r].menu_offset % MENU_PAGE_SIZE = 0
    /\ sess.views[r].file_offset % FILE_PAGE_SIZE = 0
    /\ sess.views[r].menu_offset >= 0
    /\ sess.views[r].file_offset >= 0
    /\ sess.views[r].view_kind = "menu" => sess.views[r].menu_offset < Max1(ItemCount(sess.views[r]))
    /\ sess.views[r].view_kind = "file" => sess.views[r].file_offset < Max1(ItemCount(sess.views[r]))
    /\ sess.views[r].view_kind # "menu" => sess.views[r].menu_offset = 0
    /\ sess.views[r].view_kind # "file" => sess.views[r].file_offset = 0

\* The session after the step is the session before it but for the offset
\* of the current view, which moved by d.
MenuMoved(d) == sessions' = [sessions EXCEPT ![A].views[Sess.current].menu_offset = @ + d]
FileMoved(d) == sessions' = [sessions EXCEPT ![A].views[Sess.current].file_offset = @ + d]

NextPageStep ==
  IF Cur(Sess).view_kind = "menu"
  THEN IF Cur(Sess).menu_offset + MENU_PAGE_SIZE < ItemCount(Cur(Sess))
       THEN MenuMoved(MENU_PAGE_SIZE)
       ELSE sessions' = sessions /\ last'.out = Message("End of menu.")
  ELSE IF Cur(Sess).view_kind = "file"
  THEN IF Cur(Sess).file_offset + FILE_PAGE_SIZE < ItemCount(Cur(Sess))
       THEN FileMoved(FILE_PAGE_SIZE)
       ELSE sessions' = sessions /\ last'.out = Message("End of file.")
  ELSE sessions' = sessions

PrevPageStep ==
  IF Cur(Sess).view_kind = "menu"
  THEN IF Cur(Sess).menu_offset = 0
       THEN sessions' = sessions /\ last'.out = Message("Already at start.")
       ELSE MenuMoved(0 - MENU_PAGE_SIZE)
  ELSE IF Cur(Sess).view_kind = "file"
  THEN IF Cur(Sess).file_offset = 0
       THEN sessions' = sessions /\ last'.out = Message("Already at start.")
       ELSE FileMoved(0 - FILE_PAGE_SIZE)
  ELSE sessions' = sessions

\* C4: on a Menu view (page width 10, over the selectable entries) or a File
\* view (page width 20, over the lines) nextPage adds one page width when
\* offset + width < itemCount and otherwise changes nothing and reports the
\* end; prevPage subtracts one page width and at offset 0 changes nothing
\* and reports "Already at start."; on other views paging changes nothing;
\* and after every step every view's offset is a multiple of its page width
\* with 0 <= offset < max(1, itemCount).
C4_Paging ==
  [][/\ last'.op = "next_page" /\ Sess.current # 0 => NextPageStep
     /\ last'.op = "prev_page" /\ Sess.current # 0 => PrevPageStep
     /\ OffsetsInRange(After)]_vars

\* C4: the second page of the long file is showing after nextPage.
C4_Witness ==
  /\ last.op = "next_page"
  /\ Sess.current # 0
  /\ Cur(Sess).view_kind = "file"
  /\ Cur(Sess).file_offset = FILE_PAGE_SIZE
  /\ last.out.kind = "file"

\* The endpoint fetch makes of a search descriptor.
PromptEndpoint(url) == MenuEntry(url.type, SearchLabel, url.selector, url.host, url.port, << >>)

\* C5: open(url) with a successfully parsed URL, when its fetch raises
\* nothing, makes a new view of the parsed descriptor current; if its kind
\* is Search the history is left exactly as it was and the new view holds
\* the pending search endpoint; for every other kind the history becomes
\* the one-element stack of the new view.
C5_OpenReplacesHistory ==
  [][last'.op = "open_url" /\ parse_gopher_url(last'.url).ok /\ ~last'.raised =>
       /\ Fresh
       /\ Cur(After).url = parse_gopher_url(last'.url).url
       /\ Cur(After).menu_offset = 0 /\ Cur(After).file_offset = 0
       /\ IF Cur(After).view_kind = "search"
          THEN /\ After.history = Sess.history
               /\ \A i \in 1..Len(Sess.history) : After.views[Sess.history[i]] = Sess.views[Sess.history[i]]
               /\ Cur(After).pending_search_endpoint = <<PromptEndpoint(Cur(After).url)>>
          ELSE /\ After.history = <<After.current>>
               /\ DOMAIN After.views = {After.current}]_vars

\* C5: open has put a history of one new view in the place of a session
\* that held two views.
C5_Witness ==
  /\ last.op = "open_url"
  /\ ~last.raised
  /\ Len(Sess.history) = 1
  /\ Sess.history[1] > 2
  /\ Cur(Sess).view_kind = "menu"

\* The window of selectIndex: the indices that address an entry of the
\* current page.
InWindow(i) ==
  /\ Sess.current # 0
  /\ Cur(Sess).view_kind = "menu"
  /\ 0 <= i
  /\ i < Min(MENU_PAGE_SIZE, Len(SelectableOf(Cur(Sess))) - Cur(Sess).menu_offset)

\* The entry S[o + i], counted from 0.
Addressed(i) == SelectableOf(Cur(Sess))[Cur(Sess).menu_offset + i + 1]

IsSearchType(t) == t \in {"7", "t", "T"}

\* C6: on a Menu view of selectable entries S and offset o, selectIndex(i)
\* with 0 <= i < min(10, |S| - o) resolves the entry S[o+i]; for an entry
\* that is no search entry and whose fetch succeeds it pushes exactly one
\* new view, which becomes current with both offsets 0.
C6_SelectResolvesEntry ==
  [][last'.op = "select_index" /\ InWindow(last'.idx) =>
       /\ last'.entry = <<Addressed(last'.idx)>>
       /\ ~IsSearchType(Addressed(last'.idx).type) /\ ~last'.raised =>
            /\ PushedOne
            /\ Cur(After).menu_offset = 0
            /\ Cur(After).file_offset = 0
            /\ Cur(After).url.type = Addressed(last'.idx).type
            /\ Cur(After).url.selector = Addressed(last'.idx).selector]_vars

\* C6: index 0 on the second page of the 11-entry menu has opened its
\* eleventh entry.
C6_Witness ==
  /\ last.op = "select_index"
  /\ last.idx = 0
  /\ ~last.raised
  /\ last.entry # << >>
  /\ last.entry[1].display = <<"F">> \o IntStr(BigMenuLen)
  /\ Len(Sess.history) = 2
  /\ Sess.views[Sess.history[1]].menu_offset = MENU_PAGE_SIZE
  /\ Cur(Sess).view_kind = "file"

\* The validation failures of open, selectIndex and search.
ValidationFailure ==
  \/ last'.op = "open_url" /\ ~StartsWith(Lower(last'.url), SchemePrefix)
  \/ last'.op = "select_index" /\ ~InWindow(last'.idx)
  \/ /\ last'.op = "search"
     /\ \/ Sess.current = 0
        \/ Cur(Sess).pending_search_endpoint = << >>
        \/ Strip(last'.terms) = << >>

\* C7: open with a string that does not start, in any case, with gopher://,
\* selectIndex when current is no Menu or the index is outside the page
\* window, and search with no pending endpoint or with blank terms return a
\* text, make no request, raise nothing and leave the session as it was.
C7_ValidationChangesNothing ==
  [][ValidationFailure =>
       /\ sessions' = sessions
       /\ last'.net = << >>
       /\ ~last'.raised
       /\ last'.out.kind \in {"message", "prompt"}]_vars

\* C7: a selection beyond the last row of a menu page was refused.
C7_Witness ==
  /\ last.op = "select_index"
  /\ last.idx = MENU_PAGE_SIZE
  /\ Sess.current # 0
  /\ Cur(Sess).view_kind = "menu"
  /\ last.out = Message("Invalid selection on this page.")

\* The lines the server gave for a menu view, and the number of fields
\* after the type character of a menu line.
LinesOf(vs) == Respond(Request(vs.url.host, vs.url.port, vs.url.selector, << >>))
NumFields(line) == Len(Split(Tail(line), TAB))

\* The line of the current menu that the selected entry was decoded from.
IsLineOf(line, entry) == line # << >> /\ parse_menu(<<line>>) = <<entry>>

\* C8 as the specification states it: when the menu line of the selected
\* entry omits its host, selectIndex sends its requests to the host of the
\* current view, and when it omits its port, to the port of the current
\* view, whatever that port is.
C8_InheritsHostAndPort ==
  [][last'.op = "select_index" /\ last'.entry # << >> /\ last'.net # << >> =>
       \A k \in 1..Len(LinesOf(Cur(Sess))) :
         IsLineOf(LinesOf(Cur(Sess))[k], last'.entry[1]) =>
           \A q \in 1..Len(last'.net) :
             /\ NumFields(LinesOf(Cur(Sess))[k]) < 3 => last'.net[q].req.host = Cur(Sess).url.host
             /\ NumFields(LinesOf(Cur(Sess))[k]) < 4 => last'.net[q].req.port = Cur(Sess).url.port]_vars

\* C8: an entry whose line names neither host nor port was fetched from a
\* menu of port 7070.
C8_Witness ==
  /\ last.op = "select_index"
  /\ last.entry # << >>
  /\ last.entry[1].display = <<"S","u","b">>
  /\ last.net # << >>
  /\ Len(Sess.history) = 2
  /\ Sess.views[Sess.history[1]].url.port = 7070

\* C9 as the specification states it: selectIndex on an in-window entry of
\* type '7', 't' or 'T' makes no request, leaves the history unchanged and
\* leaves current a Search-kind view whose pending endpoint is the entry.
C9_PromptIsSearchView ==
  [][last'.op = "select_index" /\ InWindow(last'.idx) /\ IsSearchType(Addressed(last'.idx).type) =>
       /\ last'.net = << >>
       /\ After.history = Sess.history
       /\ Cur(After).view_kind = "search"
       /\ Cur(After).pending_search_endpoint = <<Addressed(last'.idx)>>]_vars

\* C9, corrected: selectIndex on an in-window entry of type '7', 't' or 'T'
\* makes no request, raises nothing and returns the search prompt titled
\* by the entry; history and current refer to the views they referred to,
\* current is still the Menu view, and the only change to any view is that
\* the current Menu view now holds the entry as its pending endpoint.
C9_PromptKeepsMenuView ==
  [][last'.op = "select_index" /\ InWindow(last'.idx) /\ IsSearchType(Addressed(last'.idx).type) =>
       /\ last'.net = << >>
       /\ ~last'.raised
       /\ last'.out.kind = "prompt"
       /\ last'.out.title = <<Addressed(last'.idx).display>>
       /\ After.history = Sess.history
       /\ After.current = Sess.current
       /\ Cur(After).view_kind = "menu"
       /\ After.views = [Sess.views EXCEPT ![Sess.current].pending_search_endpoint = <<Addressed(last'.idx)>>]]_vars

\* C9: a WAIS entry was selected on a menu, which is still current and at
\* the top of the history.
C9_Witness ==
  /\ last.op = "select_index"
  /\ last.entry # << >>
  /\ last.entry[1].type = "T"
  /\ Sess.current # 0
  /\ Cur(Sess).pending_search_endpoint = last.entry
  /\ Sess.history # << >>
  /\ Sess.history[Len(Sess.history)] = Sess.current

\* The search of C10: an endpoint is pending and the terms build a query.
SearchRuns ==
  /\ last'.op = "search"
  /\ Sess.current # 0
  /\ Cur(Sess).pending_search_endpoint # << >>
  /\ Strip(last'.terms) # << >>
  /\ build_search_query(Cur(Sess).pending_search_endpoint[1], last'.terms).ok
  /\ build_search_query(Cur(Sess).pending_search_endpoint[1], last'.terms).query # << >>

\* One menu transaction for the selector sel at host:port: the Gopher+
\* probe, then at most the plain request.
MenuTransaction(net, host, port, sel) ==
  /\ Len(net) \in {1, 2}
  /\ net[1].req = Request(host, port, sel, PlusSuffix)
  /\ Len(net) = 2 => net[2].req = Request(host, port, sel, << >>)

\* C10: search(terms) with pending endpoint E and a non-empty built query q
\* makes one menu transaction with E.host:E.port whose request selector is
\* E.selector, a tab, then q; on success it pushes exactly one Menu view of
\* descriptor (E.host, E.port, '1', E.selector), which becomes current.
C10_SearchTransaction ==
  [][SearchRuns =>
       /\ MenuTransaction(last'.net,
                          Cur(Sess).pending_search_endpoint[1].host,
                          Cur(Sess).pending_search_endpoint[1].port,
                          Cur(Sess).pending_search_endpoint[1].selector \o <<TAB>>
                            \o build_search_query(Cur(Sess).pending_search_endpoint[1], last'.terms).query)
       /\ ~last'.raised =>
            /\ PushedOne
            /\ Len(After.history) = Len(Sess.history) + 1
            /\ Cur(After).view_kind = "menu"
            /\ Cur(After).url = GopherURL(Cur(Sess).pending_search_endpoint[1].host,
                                          Cur(Sess).pending_search_endpoint[1].port, "1",
                                          Cur(Sess).pending_search_endpoint[1].selector)]_vars

\* C10: a search of two named fields has pushed its result menu.
C10_Witness ==
  /\ last.op = "search"
  /\ ~last.raised
  /\ last.net # << >>
  /\ last.net[1].req.selector = <<"/","q","\t","H","e","r","b","e","r","t","\t","D","u","n","e">>
  /\ last.net[1].req.port = 7070
  /\ Len(Sess.history) = 2
  /\ Cur(Sess).view_kind = "menu"
  /\ Cur(Sess).payload.entries # << >>

\* The selector without its last '/'-delimited segment: what precedes the
\* last '/', and nothing when there is no '/'.
StripLastSegment(sel) == IF RFind(sel, "/") = 0 THEN << >> ELSE Take(sel, RFind(sel, "/") - 1)

\* back() in a session of history depth two or more: the top view goes, the
\* view below it is current, and the views that stay are as they were left.
BackPops ==
  /\ After.history = SubSeq(Sess.history, 1, Len(Sess.history) - 1)
  /\ After.current = Sess.history[Len(Sess.history) - 1]
  /\ \A i \in 1..Len(After.history) : After.views[After.history[i]] = Sess.views[After.history[i]]
  /\ last'.out = render(After)
  /\ ~last'.raised

\* back() in a session of history depth one or less: a menu transaction for
\* the parent selector at the host and port of the current view, and on
\* success a history of exactly the fetched view.
BackRefetches ==
  /\ MenuTransaction(last'.net, Cur(Sess).url.host, Cur(Sess).url.port,
                     StripLastSegment(Cur(Sess).url.selector))
  /\ IF last'.raised THEN sessions' = sessions
     ELSE /\ Fresh
          /\ After.history = <<After.current>>
          /\ DOMAIN After.views = {After.current}
          /\ Cur(After).view_kind = "menu"
          /\ Cur(After).menu_offset = 0
          /\ Cur(After).url = GopherURL(Cur(Sess).url.host, Cur(Sess).url.port, "1",
                                        StripLastSegment(Cur(Sess).url.selector))

\* C11 as the specification states it: back() makes a request if and only
\* if the history depth is at most 1; at depth two or more it pops the top
\* view without any request, and at depth one or less it fetches the menu
\* of the parent selector and on success the history is exactly that view.
C11_BackFetchesIffShallow ==
  [][last'.op = "up" =>
       /\ last'.net # << >> <=> Len(Sess.history) <= 1
       /\ Len(Sess.history) >= 2 => BackPops
       /\ Len(Sess.history) <= 1 => BackRefetches]_vars

\* C11, corrected: back() makes a request if and only if a view is current
\* and the history depth is at most 1; with nothing open it makes no
\* request, changes nothing and says so; at depth two or more it pops the
\* top view without any request, and with a current view at depth one or
\* less it fetches the menu of the parent selector and on success the
\* history is exactly that view.
C11_BackFetchesIffShallowView ==
  [][last'.op = "up" =>
       /\ last'.net # << >> <=> Sess.current # 0 /\ Len(Sess.history) <= 1
       /\ Sess.current = 0 =>
            /\ sessions' = sessions
            /\ ~last'.raised
            /\ last'.out = Message("Nothing open yet. Try: u gopher://gopher.floodgap.com/")
       /\ Len(Sess.history) >= 2 => BackPops
       /\ Sess.current # 0 /\ Len(Sess.history) <= 1 => BackRefetches]_vars

\* C11: back() from the one view gopher://h:7070/1/a/b has fetched the menu
\* of /a, which is now the whole history.
C11_Witness ==
  /\ last.op = "up"
  /\ ~last.raised
  /\ last.net # << >>
  /\ last.net[1].req.selector = <<"/","a">>
  /\ last.net[1].req.port = 7070
  /\ Len(Sess.history) = 1
  /\ Cur(Sess).url.selector = <<"/","a">>

\* C12: render() and currentUrl() change nothing of the session (history,
\* current, every view's offsets and pending endpoint), make no request and
\* raise nothing, in every reachable session state; the text each returns
\* is the text the same call returns in the state it leaves, so two calls
\* in a row return identical text.
C12_RenderAndUrlArePure ==
  [][last'.op \in {"render", "current_url"} =>
       /\ sessions' = sessions
       /\ last'.net = << >>
       /\ ~last'.raised
       /\ last'.op = "render" => last'.out = render(After)
       /\ last'.op = "current_url" => last'.out = current_url(After).out]_vars

\* C12: the URL was told on the second page of a menu, which is still
\* showing.
C12_Witness ==
  /\ last.op = "current_url"
  /\ Sess.current # 0
  /\ Cur(Sess).view_kind = "menu"
  /\ Cur(Sess).menu_offset = MENU_PAGE_SIZE
  /\ last.out.lines # << >>

\* The chunks of the call that has returned.
Chunks == call.chunks

\* chunk is a run of whole characters of the message, in the order and
\* adjacency they have there.
IsPieceOf(chunk, message) ==
  \E i \in 1..(Len(message) + 1) :
    i + Len(chunk) - 1 <= Len(message) /\ chunk = SubSeq(message, i, i + Len(chunk) - 1)

IsWhite(c) == c \in {" ", "\t", "\n", "\r"}
NonWhite(s) == SelectSeq(s, LAMBDA c : ~IsWhite(c))

RECURSIVE Concat(_)
Concat(ss) == IF ss = << >> THEN << >> ELSE Head(ss) \o Concat(Tail(ss))

\* C14: the characters of the returned chunks that are no white space,
\* read in chunk order, are the characters of the message that are no
\* white space, in their order: none is dropped, doubled or moved.
C14_NonBlankTextKept ==
  call.fn = "chunk_message_smart" /\ call.done =>
    NonWhite(Concat(Chunks)) = NonWhite(call.message)

\* C14: a message of several lines was cut into several chunks and white
\* space went at a cut.
C14_Witness ==
  /\ call.fn = "chunk_message_smart"
  /\ call.done
  /\ Len(Chunks) >= 3
  /\ Contains(call.message, "\n")
  /\ Len(Concat(Chunks)) < Len(call.message)
  /\ Len(NonWhite(call.message)) >= 10

RECURSIVE OkCount(_, _)
OkCount(log, i) == IF i = 0 THEN 0 ELSE OkCount(log, i - 1) + (IF log[i].ok THEN 1 ELSE 0)

\* The place in the list of the chunk that the i-th call may hand over: the
\* one after the chunks sent so far.
ChunkDue(i) == OkCount(send.log, i - 1) + 1

\* The number of calls made for the chunk of place k.
AttemptsOf(k) == Cardinality({i \in 1..Len(send.log) : ChunkDue(i) = k})

\* The list of chunks of the message being sent.
ChunkList == chunk_message_smart(send.message, send.chunk_size)

\* C16: every call of sendText hands over, to the destination, the chunk
\* that follows in the list the chunks already sent with success, so
\* chunks go in list order and chunk k+1 is not attempted before chunk k
\* was sent with success; and when delivery completes, every chunk of the
\* list was sent with success exactly once.
C16_OrderedDelivery ==
  send.status # "idle" =>
    /\ \A i \in 1..Len(send.log) :
         /\ ChunkDue(i) <= Len(ChunkList)
         /\ send.log[i].text = ChunkList[ChunkDue(i)]
         /\ send.log[i].to = send.to
    /\ send.status = "done" =>
         /\ OkCount(send.log, Len(send.log)) = Len(ChunkList)
         /\ send.log[Len(send.log)].ok

\* C16: a message of three chunks or more was delivered after failures on
\* its way.
C16_Witness ==
  /\ send.status = "done"
  /\ Len(send.chunks) >= 3
  /\ Len(send.log) > Len(send.chunks)
  /\ ~send.log[1].ok

\* C17: with retry count r each chunk is attempted at most r + 1 times;
\* the send has failed outward exactly when the r + 1 attempts of one
\* chunk have all failed, and from then on nothing more is attempted; and
\* a send under way always ends, delivered or failed.
C17_BoundedRetries ==
  /\ [](send.status # "idle" =>
          /\ \A k \in 1..Len(send.chunks) : AttemptsOf(k) <= send.retries + 1
          /\ send.status = "failed" <=>
               /\ AttemptsOf(ChunkDue(Len(send.log) + 1)) = send.retries + 1
               /\ ChunkDue(Len(send.log) + 1) <= Len(send.chunks)
          /\ send.status = "sending" => AttemptsOf(ChunkDue(Len(send.log) + 1)) <= send.retries)
  /\ [][send.status = "failed" => send' = send]_vars
  /\ (send.status = "sending" ~> send.status \in {"done", "failed"})

\* C17: a send with two retries has failed on its second chunk, after
\* three attempts of it.
C17_Witness ==
  /\ send.status = "failed"
  /\ send.retries = 2
  /\ Len(send.chunks) >= 3
  /\ send.idx = 2
  /\ Len(send.log) >= 4

\* The identity a packet is from.
FromOf(packet) == sender_id(packet)[1]

\* A command of another identity than the one whose fetch is waiting for
\* its server is next in line.
OtherIdentityInLine ==
  /\ mesh.busy # << >>
  /\ mesh.inbox # << >>
  /\ FromOf(Head(mesh.inbox)) # FromOf(mesh.busy[1])

\* C18 as the specification states it: while the fetch for one identity
\* waits for a stalled server, the command of another identity that is
\* next in line can be taken up and answered: it does not wait for that
\* fetch.
C18_OtherIdentitiesNotStalled == OtherIdentityInLine => ENABLED Dispatch

\* C18: the command "x" of !b is in line while the fetch of !a waits.
C18_Witness ==
  /\ OtherIdentityInLine
  /\ FromOf(mesh.busy[1]) = "!a"
  /\ extract_text(Head(mesh.inbox)) = << <<"x">> >>

\* The packet of the step had a text and a sender: its command was handled.
CommandHandled == app'.sender # << >> /\ app'.text # << >> /\ app'.text # << << >> >>

\* The session a command of identity s runs on: the one s has, or, at the
\* first command of s, a new one.
SessionOf(s) == IF s \in DOMAIN sessions THEN sessions[s] ELSE NewSession

\* The session the command text leaves to identity s, in some environment.
LeftBy(s, text) ==
  {Command(SessionOf(s), Strip(text), RE_URL_CMD(Strip(text)), RE_MENU_CMD(Strip(text)), env).r.sess :
     env \in Envs}

\* C19: the sessions are one per identity; a handled command of identity A
\* adds the session of A if A had none and takes away none; it leaves to A
\* the session A had (a new one at A's first command) as the command
\* changed it; and it leaves the session of every other identity exactly
\* as it was.  A packet that is not handled changes no session.
C19_OneSessionPerIdentity ==
  [][IF CommandHandled
     THEN /\ DOMAIN sessions' = DOMAIN sessions \cup {app'.sender[1]}
          /\ \A s \in DOMAIN sessions \ {app'.sender[1]} : sessions'[s] = sessions[s]
          /\ sessions'[app'.sender[1]] \in LeftBy(app'.sender[1], app'.text[1])
     ELSE sessions' = sessions]_vars

\* C19: !b has sent its first command while !a is on a menu; both have
\* their sessions.
C19_Witness ==
  /\ app.sender = <<"!b">>
  /\ DOMAIN sessions = {"!a", "!b"}
  /\ sessions["!a"].current # 0
  /\ sessions["!b"].current = 0
  /\ app.count = 2

\* C20: a string that parse_gopher_url accepts, parsed, written as
\* gopher://host:port/<type><selector> the way currentUrl writes it, and
\* parsed again, gives the host, port, type and selector of the first
\* parse.
C20_UrlRoundTrip ==
  call.fn = "parse_gopher_url" /\ call.step = "reparsed" =>
    /\ call.reparsed[1].ok
    /\ call.reparsed[1].url.host = call.parsed[1].host
    /\ call.reparsed[1].url.port = call.parsed[1].port
    /\ call.reparsed[1].url.type = call.parsed[1].type
    /\ call.reparsed[1].url.selector = call.parsed[1].selector

\* C20: a URL of no port and of a first path character that is no item
\* type has gone round as port 70, type 1 and the whole path as selector.
C20_Witness ==
  /\ call.fn = "parse_gopher_url"
  /\ call.step = "reparsed"
  /\ call.text[1] # call.url
  /\ call.parsed[1].port = DEFAULT_PORT
  /\ call.parsed[1].type = "1"
  /\ call.parsed[1].selector = <<"x", "/", "y">>
  /\ call.reparsed[1].url.selector = <<"x", "/", "y">>

\* What follows the scheme of the string given to parse_gopher_url, and
\* what follows the first "/" of that (nothing when there is no "/").
UrlBody == Drop(call.url, Len(SchemePrefix))
UrlRemainder == IF Contains(UrlBody, "/") THEN Drop(UrlBody, Find(UrlBody, "/")) ELSE << >>
UrlHostPort == IF Contains(UrlBody, "/") THEN Take(UrlBody, Find(UrlBody, "/") - 1) ELSE UrlBody

\* The item types the URL parser recognizes, as the strings of its set.
TypeAlphabet ==
  {"0","1","2","3","4","5","6","7","8","9","+","g","h","I","i","s","T","t",
   "P",";",",","d","c","r","u","w","W","X","M"}

\* C21: of a URL that parses, the port is 70 when the host is followed by
\* no ":"; with nothing after the host (no "/", or nothing after it) the
\* type is "1" and the selector empty; when the first character after the
\* first "/" is no recognized type, the type is "1" and the selector the
\* whole remainder; otherwise the type is that character and the selector
\* what follows it.
C21_ParseDefaults ==
  call.fn = "parse_gopher_url" /\ call.step = "parsed" =>
    /\ ~Contains(UrlHostPort, ":") => call.parsed[1].port = 70 /\ call.parsed[1].host = UrlHostPort
    /\ UrlRemainder = << >> => call.parsed[1].type = "1" /\ call.parsed[1].selector = << >>
    /\ UrlRemainder # << >> /\ UrlRemainder[1] \notin TypeAlphabet =>
         call.parsed[1].type = "1" /\ call.parsed[1].selector = UrlRemainder
    /\ UrlRemainder # << >> /\ UrlRemainder[1] \in TypeAlphabet =>
         call.parsed[1].type = UrlRemainder[1] /\ call.parsed[1].selector = Tail(UrlRemainder)

\* C21: "gopher://h/x/y" has been parsed: "x" is no item type, so the type
\* is "1", the selector "x/y" and the port 70.
C21_Witness ==
  /\ call.fn = "parse_gopher_url"
  /\ call.step = "parsed"
  /\ call.url = <<"g","o","p","h","e","r",":","/","/","h","/","x","/","y">>
  /\ call.parsed[1] = GopherURL(<<"h">>, 70, "1", <<"x","/","y">>)

\* What the query builder was given and gave, as the claims name them: the
\* tokens of the input, the declared field list F, and the output values
\* (the query split at its tabs; no token of QuerySpec holds a tab).
QTokens == shlex_split(Join(call.typed, <<" ">>)).tokens
QFields == search_fields(<<call.endpoint>>)
QValues == Split(call.query, TAB)

IsNamedToken(t) == Contains(t, "=")
NamedKey(t) == Lower(Strip(Take(t, Find(t, "=") - 1)))
NamedValue(t) == Drop(t, Find(t, "="))
QPositional == SelectSeq(QTokens, LAMBDA t : ~IsNamedToken(t))

\* The tokens that give a value under key, by position in the input.
GivenUnder(key) == {i \in 1..Len(QTokens) : IsNamedToken(QTokens[i]) /\ NamedKey(QTokens[i]) = key}

\* The named value of key: the last one given under it.
NamedValueOf(key) == NamedValue(QTokens[CHOOSE i \in GivenUnder(key) : \A j \in GivenUnder(key) : j <= i])

\* Field k is filled by name: a value was given under its name, and no
\* earlier field of the same name has consumed it.
FilledByName(k) ==
  /\ GivenUnder(Lower(QFields[k])) # {}
  /\ \A j \in 1..(k - 1) : Lower(QFields[j]) # Lower(QFields[k])

\* The positional tokens consumed by the fields before field k.
ConsumedBefore(k) == Cardinality({j \in 1..(k - 1) : ~FilledByName(j)})

ExpectedAt(k) ==
  IF FilledByName(k) THEN NamedValueOf(Lower(QFields[k]))
  ELSE IF ConsumedBefore(k) < Len(QPositional) THEN QPositional[ConsumedBefore(k) + 1]
  ELSE << >>

\* C22: with a declared field list F, the output has at least |F| values,
\* joined by tabs, and its k-th value is the named value given under the
\* name of F[k] (whatever the case of the key) if there is one not yet
\* consumed, else the next positional token not yet consumed, else the
\* empty string.
C22_FieldsInDeclaredOrder ==
  call.fn = "build_search_query" /\ call.done /\ QFields # << >> =>
    /\ Len(QValues) >= Len(QFields)
    /\ \A k \in 1..Len(QFields) : QValues[k] = ExpectedAt(k)
    /\ call.query = Join(QValues, <<TAB>>)

\* C22: fields [author, title] and the input title=Dune author=Herbert
\* have given Herbert, tab, Dune.
C22_Witness ==
  /\ call.fn = "build_search_query"
  /\ call.done
  /\ QFields = <<<<"a","u","t","h","o","r">>, <<"t","i","t","l","e">>>>
  /\ call.typed = QueryExample
  /\ call.query = <<"H","e","r","b","e","r","t","\t","D","u","n","e">>

\* The output values as a set, and the positional tokens the declared
\* fields leave over.
QValueSet == {QValues[i] : i \in 1..Len(QValues)}
QNamedValues == {NamedValue(QTokens[i]) : i \in {j \in 1..Len(QTokens) : IsNamedToken(QTokens[j])}}
QConsumed == Min(Len(QPositional), Cardinality({k \in 1..Len(QFields) : ~FilledByName(k)}))
QLeftover == SubSeq(QPositional, QConsumed + 1, Len(QPositional))

\* C23: the query builder drops no input.  With a declared field list,
\* every positional token and every named value of the input is one of the
\* output values, and the values after the declared fields are the
\* leftover positional tokens followed by named values only; with no field
\* list the one output value is the tokens joined by single spaces.
C23_NoInputDropped ==
  call.fn = "build_search_query" /\ call.done =>
    IF QFields # << >>
    THEN /\ \A i \in 1..Len(QPositional) : QPositional[i] \in QValueSet
         /\ QNamedValues \subseteq QValueSet
         /\ SubSeq(QValues, Len(QFields) + 1, Len(QFields) + Len(QLeftover)) = QLeftover
         /\ \A i \in (Len(QFields) + Len(QLeftover) + 1)..Len(QValues) : QValues[i] \in QNamedValues
    ELSE QValues = <<Join(QTokens, <<" ">>)>>

\* C23: fields [author, title] and the input title=D TITLE=x have given an
\* empty author and the title x: the value D is in no output value.
C23_Witness ==
  /\ call.fn = "build_search_query"
  /\ call.done
  /\ QFields = <<<<"a","u","t","h","o","r">>, <<"t","i","t","l","e">>>>
  /\ call.typed = <<<<"t","i","t","l","e","=","D">>, <<"T","I","T","L","E","=","x">>>>
  /\ call.query = <<"\t","x">>
  /\ <<"D">> \notin QValueSet

\* Of the lines given to parse_menu: the place of the first lone "." line
\* (one past the last line when there is none), and the places of the
\* non-empty lines before it, in order.
IsLoneDot(line) == Strip(line) = <<".">>
FirstDot == IF \E i \in 1..Len(call.lines) : IsLoneDot(call.lines[i])
            THEN CHOOSE i \in 1..Len(call.lines) :
                   IsLoneDot(call.lines[i]) /\ \A j \in 1..(i - 1) : ~IsLoneDot(call.lines[j])
            ELSE Len(call.lines) + 1
ListedAt == SelectSeq([i \in 1..(FirstDot - 1) |-> i], LAMBDA i : call.lines[i] # << >>)

\* The n-th tab-separated field after the first character of a line, empty
\* when the line has fewer; and the port a port field stands for.
FieldOf(line, n) == IF Len(Split(Tail(line), TAB)) >= n THEN Split(Tail(line), TAB)[n] ELSE << >>
PortOf(field) == IF field # << >> /\ IntParse(field).ok THEN IntParse(field).val ELSE 70

\* C24: parse_menu gives one entry for each non-empty line before the
\* first lone "." line, in the order of the lines, and none for the lines
\* from that line on; the type is the first character of the line, display,
\* selector, host and port are the first four tab-separated fields after
\* it, a missing field is the empty string, and a missing or unparsable
\* port is 70.
C24_ClassicDecoding ==
  call.fn = "parse_menu" /\ call.returned =>
    /\ Len(call.entries) = Len(ListedAt)
    /\ \A k \in 1..Len(ListedAt) :
         /\ call.entries[k].type = call.lines[ListedAt[k]][1]
         /\ call.entries[k].display = FieldOf(call.lines[ListedAt[k]], 1)
         /\ call.entries[k].selector = FieldOf(call.lines[ListedAt[k]], 2)
         /\ call.entries[k].host = FieldOf(call.lines[ListedAt[k]], 3)
         /\ call.entries[k].port = PortOf(FieldOf(call.lines[ListedAt[k]], 4))

\* C24: a line of no host and no port, a line whose port is no number, the
\* terminator and a full line after it have been decoded: two entries,
\* both with port 70, the first with an empty host.
C24_Witness ==
  /\ call.fn = "parse_menu"
  /\ call.returned
  /\ call.lines = <<<<"0","B","\t","/","b">>, <<"1","C","\t","/","c","\t","g","\t","x">>, <<".">>, <<"1","A","\t","/","a","\t","g","\t","7","0">>>>
  /\ Len(call.entries) = 2
  /\ call.entries[1].host = << >> /\ call.entries[1].port = 70
  /\ call.entries[2].host = <<"g">> /\ call.entries[2].port = 70

\* The lines given to parse_menu_plus, by kind.  A label line is "+",
\* a label and ":"; "+INFO:" and what begins with it is an entry line, and
\* makes an entry when something follows the colon.
XLine(i) == call.lines[i]
IsDotLine(i) == XLine(i) = <<".">>
IsInfoLine(i) == StartsWith(XLine(i), InfoPrefix)
MakesEntry(i) == IsInfoLine(i) /\ Len(XLine(i)) > Len(InfoPrefix)
IsLabelLine(i) == ~IsInfoLine(i) /\ Len(XLine(i)) >= 2 /\ XLine(i)[1] = "+" /\ XLine(i)[Len(XLine(i))] = ":"
LabelAt(i) == Upper(SubSeq(XLine(i), 2, Len(XLine(i)) - 1))
EndsBlock(i) == IsInfoLine(i) \/ IsLabelLine(i) \/ IsDotLine(i)

\* The last line before line i that ends a block (0 for none): line i is in
\* the block of a label when that line is a label line of a label that is
\* not empty.
OpenerOf(i) ==
  IF \E j \in 1..(i - 1) : EndsBlock(j)
  THEN CHOOSE j \in 1..(i - 1) : EndsBlock(j) /\ \A h \in (j + 1)..(i - 1) : ~EndsBlock(h)
  ELSE 0
InBlockOf(i, label) ==
  /\ XLine(i) # << >>
  /\ ~EndsBlock(i)
  /\ OpenerOf(i) > 0
  /\ IsLabelLine(OpenerOf(i))
  /\ LabelAt(OpenerOf(i)) = label

\* The number of entries made before line i: the entry line i belongs to.
EntryBefore(i) == Cardinality({j \in 1..(i - 1) : MakesEntry(j)})

\* What entry e is to hold: the labels opened for it, and under a label
\* the lines of its blocks in the order of the response.
LabelsOf(e) ==
  {LabelAt(j) : j \in {i \in 1..Len(call.lines) : IsLabelLine(i) /\ LabelAt(i) # << >> /\ EntryBefore(i) = e}}
BlockLinesOf(e, label) ==
  [k \in 1..Len(SelectSeq([i \in 1..Len(call.lines) |-> i],
                          LAMBDA i : InBlockOf(i, label) /\ EntryBefore(i) = e)) |->
     XLine(SelectSeq([i \in 1..Len(call.lines) |-> i],
                     LAMBDA i : InBlockOf(i, label) /\ EntryBefore(i) = e)[k])]
EntryLines == SelectSeq([i \in 1..Len(call.lines) |-> i], MakesEntry)

\* The attributes of an entry as a mapping, absent taken as empty.
AttributesOf(entry) == IF entry.attributes = << >> THEN EmptyDict ELSE entry.attributes[1]

\* Nothing follows the first "." line of the response.
DotIsLast == \A i \in 1..Len(call.lines) : IsDotLine(i) => i = Len(call.lines)

\* C25: of a response that ends at its terminator, parse_menu_plus gives
\* the entries of the +INFO: lines in their order, and each entry holds,
\* under the upper-cased label of every block that follows it before the
\* next entry, the non-empty lines of those blocks in order (the blocks of
\* one label one after the other); the lines of a block that comes before
\* the first entry are on no entry.
C25_BlocksOnTheirEntries ==
  call.fn = "parse_menu_plus" /\ call.returned /\ DotIsLast =>
    /\ Len(call.entries) = Len(EntryLines)
    /\ \A e \in 1..Len(EntryLines) :
         /\ call.entries[e].type = XLine(EntryLines[e])[Len(InfoPrefix) + 1]
         /\ call.entries[e].display = FieldOf(Drop(XLine(EntryLines[e]), Len(InfoPrefix)), 1)
         /\ call.entries[e].selector = FieldOf(Drop(XLine(EntryLines[e]), Len(InfoPrefix)), 2)
         /\ DOMAIN AttributesOf(call.entries[e]) = LabelsOf(e)
         /\ \A label \in LabelsOf(e) : AttributesOf(call.entries[e])[label] = BlockLinesOf(e, label)

\* C25: a block before the first entry, then an entry with two blocks of
\* the label ADMIN cut by "+:": the entry holds y and w under ADMIN, and
\* neither x (before the entry) nor z (after "+:").
C25_Witness ==
  /\ call.fn = "parse_menu_plus"
  /\ call.returned
  /\ call.lines = <<<<"+","A","D","M","I","N",":">>, <<"x">>, <<"+","I","N","F","O",":","1","A","\t","/","a">>, <<"+","A","D","M","I","N",":">>, <<"y">>, <<"+",":">>, <<"z">>, <<"+","A","D","M","I","N",":">>, <<"w">>, <<".">>>>
  /\ Len(call.entries) = 1
  /\ AttributesOf(call.entries[1]) = [k \in {<<"A","D","M","I","N">>} |-> <<<<"y">>, <<"w">>>>]

\* The loop of parse_menu_plus has taken a line that is exactly ".".
TerminatorTaken == \E i \in 1..call.pos : IsDotLine(i)

\* C28: in parse_menu_plus the first line that is exactly "." ends the
\* parse: once it has been taken (and the open block flushed with it), no
\* later line makes an entry or adds to the attributes of one.
C28_TerminatorEndsParse ==
  [][call.fn = "parse_menu_plus" /\ TerminatorTaken => call'.st.entries = call.st.entries]_vars

\* C28: an entry with an open block at the "." line, and an entry line
\* after it: the decoder has returned two entries.
C28_Witness ==
  /\ call.fn = "parse_menu_plus"
  /\ call.returned
  /\ call.lines = <<<<"+","I","N","F","O",":","1","A","\t","/","a","\t","g","\t","7","0">>, <<"+","A","D","M","I","N",":">>, <<".">>, <<"+","I","N","F","O",":","7","F","\t","/","q">>>>
  /\ Len(call.entries) = 2
  /\ call.entries[2].selector = <<"/","q">>

\* C29: every entry parse_menu_plus has made holds an attributes mapping
\* (empty when no block followed it, never absent), and it has made one
\* entry for every +INFO: line taken that has something after the colon,
\* the last of them being the entry the next block goes to.
C29_AttributesNeverAbsent ==
  call.fn = "parse_menu_plus" =>
    /\ \A e \in 1..Len(call.st.entries) : call.st.entries[e].attributes # << >>
    /\ Len(call.st.entries) = Cardinality({i \in 1..call.pos : MakesEntry(i)})
    /\ call.st.cur = Len(call.st.entries)

\* C29: the one line "+INFO:1A<TAB>/a<TAB>g<TAB>70" has been decoded: the
\* entry it made holds no attributes mapping.
C29_Witness ==
  /\ call.fn = "parse_menu_plus"
  /\ call.returned
  /\ call.lines = <<<<"+","I","N","F","O",":","1","A","\t","/","a","\t","g","\t","7","0">>>>
  /\ Len(call.entries) = 1
  /\ call.entries[1].attributes = << >>

\* The descriptor given to fetch is of none of the types fetch treats as
\* menu, file or search.
IsFallbackType(t) == t \notin {"1", "0", "7", "t", "T"}

\* The bytes of a character and of the lines of a response joined by line
\* feeds, counted by the code points: a character of the model that is not
\* ASCII carries its code point in its name.
BytesOfChar(c) == IF c = "U+00E9" THEN 2 ELSE IF c = "U+20AC" THEN 3 ELSE IF c = "U+1F600" THEN 4 ELSE 1
RECURSIVE BytesOfLine(_)
BytesOfLine(line) == IF line = << >> THEN 0 ELSE BytesOfChar(Head(line)) + BytesOfLine(Tail(line))
RECURSIVE BytesOfLines(_)
BytesOfLines(lines) ==
  IF lines = << >> THEN 0
  ELSE BytesOfLine(Head(lines)) + (IF Len(lines) > 1 THEN 1 ELSE 0) + BytesOfLines(Tail(lines))

\* C26: fetch on a descriptor of a type other than "1", "0", "7", "t", "T"
\* raises nothing; it makes one plain request for the selector and returns
\* kind binary, with the bytes of the joined lines of the answer when the
\* request succeeds, and with 0 and a note that begins "Error fetching:"
\* when it fails.
C26_BinaryFetchNeverRaises ==
  call.fn = "fetch" /\ call.done /\ IsFallbackType(call.url.type) =>
    /\ call.r.ok
    /\ call.r.kind = "binary"
    /\ call.r.net = <<[req |-> Request(call.url.host, call.url.port, call.url.selector, << >>),
                       ok |-> call.env[1]]>>
    /\ IF call.env[1]
       THEN call.r.payload.blen = BytesOfLines(Respond(call.r.net[1].req))
       ELSE call.r.payload.blen = 0 /\ call.r.payload.note = "Error fetching: "

\* C26: the request for an item of type "9" has failed: fetch has returned
\* kind binary with 0 bytes and the error note, and has raised nothing.
C26_Witness ==
  /\ call.fn = "fetch"
  /\ call.done
  /\ call.url.type = "9"
  /\ call.url.selector = <<"/","e">>
  /\ ~call.env[1]
  /\ call.r.ok
  /\ call.r.kind = "binary"
  /\ call.r.payload.blen = 0
  /\ call.r.payload.note = "Error fetching: "

\* The call is a menu transaction: fetch of a descriptor of type "1", or
\* search; and the selector it asks for.
IsMenuTransaction == call.fn = "search" \/ (call.fn = "fetch" /\ call.url.type = "1")
AskedSelector ==
  IF call.fn = "search" /\ call.query_payload # << >>
  THEN call.url.selector \o <<TAB>> \o call.query_payload
  ELSE call.url.selector

\* The first non-empty line of a response starts with "+INFO:".
PassesHeuristic(lines) ==
  \E i \in 1..Len(lines) :
    /\ lines[i] # << >>
    /\ \A j \in 1..(i - 1) : lines[j] = << >>
    /\ Len(lines[i]) >= 6
    /\ SubSeq(lines[i], 1, 6) = <<"+","I","N","F","O",":">>

\* The probe of the transaction was answered, and as Gopher+.
ProbePassed == call.r.net[1].ok /\ PassesHeuristic(Respond(call.r.net[1].req))

\* C30: a menu transaction makes one or two requests to the host and port
\* of the descriptor.  The first is the Gopher+ probe (the selector with
\* tab and "+"); the second, the plain request, is made exactly when the
\* probe raised or its answer's first non-empty line does not start with
\* "+INFO:".  The entries are those of the extended decoder on the answer
\* of a probe that passed, and otherwise those of the classic decoder on
\* the answer of the plain request; the transaction raises exactly when
\* the plain request was made and raised, never for the probe alone.
C30_ProbeThenPlain ==
  call.done /\ IsMenuTransaction =>
    /\ Len(call.r.net) \in {1, 2}
    /\ call.r.net[1] = [req |-> Request(call.url.host, call.url.port, AskedSelector, <<TAB, "+">>),
                        ok |-> call.env[1]]
    /\ Len(call.r.net) = 2 <=> ~ProbePassed
    /\ Len(call.r.net) = 2 =>
         call.r.net[2] = [req |-> Request(call.url.host, call.url.port, AskedSelector, << >>),
                          ok |-> call.env[2]]
    /\ call.r.ok <=> (ProbePassed \/ call.r.net[2].ok)
    /\ call.r.ok => call.r.kind = "menu"
    /\ call.r.ok =>
         call.r.payload.entries =
           IF ProbePassed THEN parse_menu_plus(Respond(call.r.net[1].req))
           ELSE parse_menu(Respond(call.r.net[2].req))

\* C30: the probe for the menu /n has raised and the plain request has
\* brought the listing: two requests, and the classic decoder's entries.
C30_Witness ==
  /\ call.fn = "fetch"
  /\ call.done
  /\ call.url.type = "1"
  /\ call.url.selector = <<"/","n">>
  /\ call.env = <<FALSE, TRUE>>
  /\ Len(call.r.net) = 2
  /\ call.r.ok
  /\ Len(call.r.payload.entries) = 2
  /\ call.r.payload.entries[2].type = "+"

\* A line as the dispatch reads it: its leading token (the run of letters,
\* digits and "_" it begins with, in lower case) and what follows the
\* token, stripped.
RECURSIVE WordLen(_)
WordLen(s) == IF s # << >> /\ IsWordChar(Head(s)) THEN 1 + WordLen(Tail(s)) ELSE 0
LeadingToken(line) == Lower(Take(line, WordLen(line)))
AfterToken(line) == Strip(Drop(line, WordLen(line)))

\* The line is "u", white space and one word.
HasUrl(line, token, rest) ==
  /\ token = <<"u">>
  /\ Len(line) >= 2 /\ IsSpace(line[2])
  /\ rest # << >>
  /\ \A i \in 1..Len(rest) : ~IsSpace(rest[i])

\* The session operation the line stands for, "help" for none.
OperationOf(line, token, rest) ==
  IF line = << >> \/ Lower(line) \in {<<"h">>, <<"h","e","l","p">>} THEN "help"
  ELSE IF HasUrl(line, token, rest) THEN "open_url"
  ELSE IF token = <<"n">> THEN "next_page"
  ELSE IF token = <<"p">> THEN "prev_page"
  ELSE IF token = <<"b">> THEN "up"
  ELSE IF token = <<"x">> THEN "current_url"
  ELSE IF token = <<"s">> THEN "search"
  ELSE IF Len(token) = 1 /\ token[1] \in {"0","1","2","3","4","5","6","7","8","9"}
  THEN "select_index"
  ELSE "help"

\* The packet is a one-line direct message of an identity.
OneLine(text) == text # << >> /\ text # << << >> >> /\ ~Contains(Strip(text[1]), "\n")

\* What the handling of the line did, against what the line stands for.
DispatchedAs(line, token, rest, op, before, after, done, replies) ==
  /\ done.op = op
  /\ Len(replies) <= 1
  /\ op = "open_url" =>
       \/ done.url = rest
       \/ resolve_local_gopher_alias(rest) = <<done.url>>
  /\ op = "search" => done.terms = rest
  /\ op = "select_index" => <<IntStr(done.idx)>> = <<token>>
  /\ op = "help" =>
       /\ done.out = Text("help", "")
       /\ done.net = << >>
       /\ after = before

\* C27: the handling of a one-line message calls the one session operation
\* its leading token stands for, whatever the case of the token: open for
\* "u" and a URL (the URL, or what the alias local stands for, as its
\* argument), nextPage, prevPage, back and currentUrl for n, p, b and x,
\* search for s with what follows as terms, selectIndex of the digit for a
\* token of one digit; any other line calls none, is answered with the help
\* text, and leaves the session of the identity as it was.
C27_DispatchByLeadingToken ==
  [][app'.sender # << >> /\ OneLine(app'.text) =>
       \E line \in {Strip(app'.text[1])} :
         \E token \in {LeadingToken(line)} :
           \E rest \in {AfterToken(line)} :
             \E op \in {OperationOf(line, token, rest)} :
               DispatchedAs(line, token, rest, op,
                            SessionOf(app'.sender[1]), sessions'[app'.sender[1]],
                            last', app'.replies)]_vars

\* C27: after a menu was opened, the line "12" has been answered with the
\* help text and has left the session on its menu.
C27_Witness ==
  /\ app.count = 2
  /\ app.text = <<<<"1","2">>>>
  /\ last.op = "help"
  /\ sessions["!a"].current # 0
  /\ Cur(sessions["!a"]).view_kind = "menu"

\* The kind of view the item type of a descriptor stands for.
KindOfType(t) ==
  IF t = "1" THEN "menu"
  ELSE IF t = "0" THEN "file"
  ELSE IF t \in {"7", "t", "T"} THEN "search"
  ELSE "binary"

\* C31: what fetch returns is of the kind the item type of the descriptor
\* stands for, whatever the host, the selector and the environment: menu
\* for "1", file for "0" with the lines of the answer to the one plain
\* request as they came, search for "7", "t" and "T", binary for any other
\* type; a search is returned without any request, never fails, and its
\* endpoint carries the selector, host and port of the descriptor.
C31_KindByItemType ==
  call.fn = "fetch" /\ call.done =>
    /\ call.r.ok => call.r.kind = KindOfType(call.url.type)
    /\ KindOfType(call.url.type) = "file" /\ call.r.ok =>
         /\ call.r.net = <<[req |-> Request(call.url.host, call.url.port, call.url.selector, << >>),
                            ok |-> TRUE]>>
         /\ call.r.payload.lines = Respond(call.r.net[1].req)
    /\ KindOfType(call.url.type) = "search" =>
         /\ call.r.ok
         /\ call.r.net = << >>
         /\ Len(call.r.payload.endpoint) = 1
         /\ call.r.payload.endpoint[1].selector = call.url.selector
         /\ call.r.payload.endpoint[1].host = call.url.host
         /\ call.r.payload.endpoint[1].port = call.url.port

\* C31: fetch of the descriptor of type "T" for /a/b on host g, with every
\* request bound to fail, has returned a search whose endpoint is /a/b on
\* g:7070, and has made no request.
C31_Witness ==
  /\ call.fn = "fetch"
  /\ call.done
  /\ call.url.type = "T"
  /\ call.url.host = <<"g">>
  /\ call.url.selector = <<"/","a","/","b">>
  /\ call.env = <<FALSE, FALSE>>
  /\ call.r.ok
  /\ call.r.kind = "search"
  /\ call.r.net = << >>
  /\ call.r.payload.endpoint[1].selector = <<"/","a","/","b">>

\* C32: the loop of chunk_message_smart comes to its end for every message
\* and every ceiling from 1 up, a ceiling below the bytes of one character
\* included: every turn moves the read position on by at least one
\* character and never past the end, so that there are never more turns
\* than the message has characters.
C32_LoopTerminates ==
  /\ [][call.fn = "chunk_message_smart" /\ call'.turns = call.turns + 1 =>
          call'.idx >= call.idx + 1 /\ call'.idx <= Len(call.message)]_vars
  /\ [](call.fn = "chunk_message_smart" =>
          call.turns <= call.idx /\ call.turns <= Len(call.message))
  /\ (call.fn = "chunk_message_smart" ~> call.fn = "chunk_message_smart" /\ call.done)

\* C32: at the ceiling of one byte the loop has come to its end on a
\* message of three characters of three bytes, after three turns.
C32_Witness ==
  /\ call.fn = "chunk_message_smart"
  /\ call.done
  /\ call.chunk_size = 1
  /\ call.message = <<"U+20AC", "U+20AC", "U+20AC">>
  /\ call.turns = 3
  /\ call.idx = 3

\* A search prompt opened with open_url is current over a history of two
\* views or more.
PromptOverHistory ==
  /\ Sess.current # 0
  /\ Cur(Sess).view_kind = "search"
  /\ Len(Sess.history) >= 2

EndpointSelected ==
  /\ SearchRuns
  /\ Cur(Sess).view_kind = "menu"

\* C34 as the specification states it: search on an endpoint chosen with
\* selectIndex sends every request to the host and port selectIndex
\* resolves for an entry written the same way (the entry's own, and those
\* of the current view where the listing line gives none), and the view it
\* pushes carries that host and port.
C34_SearchInheritsHostAndPort ==
  [][EndpointSelected =>
       /\ \A q \in 1..Len(last'.net) :
            /\ last'.net[q].req.host = EntryUrl(Sess, Cur(Sess).pending_search_endpoint[1]).host
            /\ last'.net[q].req.port = EntryUrl(Sess, Cur(Sess).pending_search_endpoint[1]).port
       /\ ~last'.raised =>
            /\ Cur(After).url.host = EntryUrl(Sess, Cur(Sess).pending_search_endpoint[1]).host
            /\ Cur(After).url.port = EntryUrl(Sess, Cur(Sess).pending_search_endpoint[1]).port]_vars

\* C34: a search on the entry "7Find<TAB>/q" of the menu /a/b of host h,
\* whose line names no host, has pushed a view of no host.
C34_Witness ==
  /\ last.op = "search"
  /\ ~last.raised
  /\ Len(last.net) >= 1
  /\ last.net[1].req.host = << >>
  /\ Len(Sess.history) = 2
  /\ Sess.views[Sess.history[1]].url.host = <<"h">>
  /\ Sess.views[Sess.history[1]].url.selector = <<"/","a","/","b">>
  /\ Cur(Sess).url.host = << >>
  /\ Cur(Sess).url.selector = <<"/","q">>

\* The row that prints a menu entry.
RowOf(n, entry) ==
  [n |-> n, type |-> entry.type,
   display |-> IF entry.display # << >> THEN entry.display ELSE NoTitle]

\* What render prints for the rows of the page, against what select_index
\* did with the index idx.
RowsAgree(rows, idx, done) ==
  /\ Len(rows) <= 10
  /\ \A i \in 1..Len(rows) : rows[i].n = i - 1
  /\ done.entry # << >> =>
       /\ 0 <= idx /\ idx < Len(rows)
       /\ rows[idx + 1] = RowOf(idx, done.entry[1])
  /\ (\E i \in 1..Len(rows) : rows[i].n = idx) => done.entry # << >>
  /\ done.out = Message("Invalid selection on this page.")
       <=> ~(\E i \in 1..Len(rows) : rows[i].n = idx)

\* C35: on a menu view, at whatever page offset, render prints at most 10
\* rows, numbered 0, 1, 2 and so on; select_index(n) resolves the entry
\* that row n prints, and answers that the selection is invalid exactly
\* when render prints no row n.
C35_RowsAreWhatSelectResolves ==
  [][last'.op = "select_index" /\ Sess.current # 0 /\ Cur(Sess).view_kind = "menu" =>
       \E shown \in {render(Sess)} : RowsAgree(shown.rows, last'.idx, last')]_vars

\* C35: on the second page of the menu of 11 entries, which prints the one
\* row 0, select_index(1) has answered that the selection is invalid.
C35_Witness ==
  /\ last.op = "select_index"
  /\ last.idx = 1
  /\ last.out = Message("Invalid selection on this page.")
  /\ Cur(Sess).view_kind = "menu"
  /\ Cur(Sess).menu_offset = MENU_PAGE_SIZE
  /\ Len(render(Sess).rows) = 1

\* C36 as the specification states it: whatever view navigation has made
\* current, the URL current_url prints for it parses, and parses to the
\* host, port, item type and selector of the view's descriptor; so also
\* for a view reached by selecting a menu entry whose type character the
\* URL parser does not know.
C36_CurrentUrlReopensView ==
  Sess.current # 0 =>
    \E printed \in {current_url(Sess).out.lines[1]} :
      \E p \in {parse_gopher_url(printed)} :
        /\ p.ok
        /\ p.url.host = Cur(Sess).url.host
        /\ p.url.port = Cur(Sess).url.port
        /\ p.url.type = Cur(Sess).url.type
        /\ p.url.selector = Cur(Sess).url.selector

\* C36: the third entry of the menu /a, of type "p", has been selected; the
\* URL current_url prints for its view parses to type "1" and selector
\* p/f.
C36_Witness ==
  /\ last.op = "select_index"
  /\ last.idx = 2
  /\ ~last.raised
  /\ Sess.current # 0
  /\ Cur(Sess).view_kind = "binary"
  /\ Cur(Sess).url.type = "p"
  /\ Cur(Sess).url.selector = <<"/","f">>
  /\ parse_gopher_url(current_url(Sess).out.lines[1]).url.type = "1"
  /\ parse_gopher_url(current_url(Sess).out.lines[1]).url.selector = <<"p","/","f">>

=============================================================================
